---- MODULE Spec2Model ----
(***************************************************************************)
(* Verification model of the derived-state engine of the cohort tracker:   *)
(*   - importSeedData / processChildren (scripts/import-seed-data.ts)      *)
(*   - calculateAggregatedCounts (components/tree/HierarchyTree.tsx)       *)
(*   - calculateStatus / getWorstStatus (domain/status-calculator.ts)      *)
(*   - parseSeedData / createNodeFromSeed (data/seed-parser.ts)            *)
(*   - useNodes (hooks/useNodes.ts), device-aggregator.ts, node.schema.ts  *)
(*   - calculateMetrics (components/dashboard)                             *)
(*   - EditableField (components/edit/NodeEditor.tsx)                      *)
(* Each program has its own specification over the shared variables:       *)
(*   Spec (import), SpecWalk, SpecWalkFair, SpecStatus, SpecParse,         *)
(*   SpecImportParse, SpecHook, SpecHookAsync, SpecDomain, SpecEdit.       *)
(***************************************************************************)
EXTENDS Integers, Sequences, FiniteSets, TLC

VARIABLES
    seed,        \* the nested seed description, flattened to entries with a parent index
    store,       \* the storage collaborator's node set
    nextId,      \* the store's id generator
    pc,          \* position of importSeedData
    stack,       \* processChildren activation records
    result,      \* ImportResult of the current run
    idMap,       \* the run's local identifier map
    calls,       \* store calls issued by the current run, in order
    run,         \* number of the current run
    faults,      \* failures injected so far
    runFaults,   \* kinds of failure seen by the current run
    pastFaults,  \* kinds of failure seen by earlier runs
    startStore,  \* the store as it was when the current run started
    wnodes,      \* the node list handed to calculateAggregatedCounts
    wresult,     \* its memo map `result`
    wstack,      \* activation records of aggregate
    wi,          \* position of the `for (const node of nodes)` loop
    wpc,         \* "run", "done", "rendered", or "RangeError" once the call stack is exhausted
    wshown,      \* what HierarchyTree has rendered: node id -> status class and badge
    wbody,       \* node id -> how often the summation body of aggregate was entered for it
    wmemo,       \* node id -> how often a request for it was answered from the memo map
    wmetrics,    \* the Dashboard's Metrics for the same node list, empty before
    childStatuses, \* argument of calculateStatus
    fallback,    \* its second argument, or Undefined when the caller omits it
    sresult,     \* the value calculateStatus returned
    spc,         \* "call" before and "done" after the call
    pnodes,      \* parseSeedData: the output array `nodes`
    pqueue,      \* parseSeedData: the work queue
    pnow,        \* parseSeedData: the timestamp captured on entry
    ppc,         \* parseSeedData: "root", "loop" or "done"
    psrc,        \* for each element of pnodes, the seed entry it was made from
    hnodes,      \* useNodes: the `nodes` state
    hstore,      \* the Node table behind client.models.Node
    hnextId,     \* the next id the table hands out
    hlast,       \* the last mutation called on the hook and how it ended
    hprev,       \* the `nodes` state before that mutation
    hops,        \* calls made on the hook so far
    hflight,     \* the calls whose promise is pending, with the store's answer once given
    hresolved,   \* ids of the nodes whose createNode call has resolved
    dcall,       \* the domain function called and its arguments
    dret,        \* the value it returned
    dpc,         \* "call" before and "done" after the call
    estate,      \* EditableField's EditState: its mode and draft value
    evalue,      \* the `value` prop the field is rendered with
    etimers,     \* pending blur timers, each with the state and value its render saw
    epending,    \* onSave promises not yet settled, each with the handleSave call's draft
    esaves,      \* onSave invocations since the field last entered edit mode
    eoverlap,    \* whether onSave was ever invoked while another was pending
    eevents      \* user events on the field so far

importVars == <<seed, store, nextId, pc, stack, result, idMap, calls, run,
                faults, runFaults, pastFaults, startStore>>

walkVars == <<wnodes, wresult, wstack, wi, wpc, wshown, wbody, wmemo, wmetrics>>

statusVars == <<childStatuses, fallback, sresult, spc>>

parseVars == <<pnodes, pqueue, pnow, ppc, psrc>>

hookVars == <<hnodes, hstore, hnextId, hlast, hprev, hops, hflight, hresolved>>

domainVars == <<dcall, dret, dpc>>

editVars == <<estate, evalue, etimers, epending, esaves, eoverlap, eevents>>

vars == <<importVars, walkVars, statusVars, parseVars, hookVars, domainVars,
          editVars>>

----------------------------------------------------------------------------
(* Bounds *)

MaxSeedNodes == 4
MaxRuns == 2
MaxFaults == 1
MaxNodes == 3
MaxStatuses == 3
MaxOps == 3
MaxCount == 40
MaxCohorts == 2

Names == {"A", "B"}

\* the organisation's name; the names being interchangeable, one choice covers both
OrgName == "A"

----------------------------------------------------------------------------
(* Shared vocabulary *)

NullId == 0

NullCount == -1

UndefCount == -2

Null == "null"

Undefined == "undefined"

Statuses == {"red", "amber", "green", "blue"}

HierarchyChain == <<"organisation", "directorate", "department", "subdepartment", "cohort">>

Min(a, b) == IF a < b THEN a ELSE b

Range(s) == {s[k] : k \in 1..Len(s)}

----------------------------------------------------------------------------
(* Seed descriptions.  Entry 1 is seedData.organisation; entry i > 1 is a  *)
(* member of the children array of entry seed[i].parent, the arrays being  *)
(* ordered by entry index.                                                 *)

RECURSIVE SeedDepth(_, _)
SeedDepth(sd, i) == IF sd[i].parent = 0 THEN 0 ELSE 1 + SeedDepth(sd, sd[i].parent)

SeedChildren(sd, i) ==
    LET idx == [k \in 1..Len(sd) |-> k]
    IN  SelectSeq(idx, LAMBDA j : sd[j].parent = i)

ParentVectors(n) ==
    {p \in [1..n -> 0..(n - 1)] : p[1] = 0 /\ \A i \in 2..n : p[i] \in 1..(i - 1)}

RECURSIVE VecDepth(_, _)
VecDepth(p, i) == IF p[i] = 0 THEN 0 ELSE 1 + VecDepth(p, p[i])

\* which of the optional fields contact, additionalContacts and headcount an entry
\* supplies: the four combinations below, handed out in turn from a starting point
FieldSets ==
    << {}, {"contact", "headcount"}, {"additionalContacts"},
       {"contact", "additionalContacts", "headcount"} >>

GivenFields(i, shift) == FieldSets[((i + shift) % 4) + 1]

\* A seed whose non-root entries carry the type of their level in the strict chain
\* organisation > directorate > department > subdepartment > cohort, and whose
\* entries supply none of the optional fields.
ChainSeed(n, p, nm) ==
    [i \in 1..n |-> [name   |-> nm[i],
                     type   |-> HierarchyChain[Min(VecDepth(p, i), 4) + 1],
                     status |-> IF i % 2 = 1 THEN Null ELSE "amber",
                     given  |-> {},
                     contact |-> Null,
                     additionalContacts |-> <<>>,
                     headcount |-> NullCount,
                     parent |-> p[i]]]

\* the same with the type left out of every entry that is not marked explicit (the
\* organisation's own type field is never read), and with the optional fields of
\* SeedDataNode: `given` names the ones the entry supplies; the values include the
\* empty string, the empty list and zero
PartlyTypedSeed(n, p, explicit, shift) ==
    [i \in 1..n |-> [name   |-> IF i % 2 = 1 THEN "A" ELSE "B",
                     type   |-> IF explicit[i] /\ i > 1
                                THEN HierarchyChain[Min(VecDepth(p, i), 4) + 1]
                                ELSE Null,
                     status |-> IF i % 2 = 1 THEN Null ELSE "amber",
                     given  |-> GivenFields(i, shift),
                     contact |-> IF i % 2 = 0 THEN "" ELSE "Ann",
                     additionalContacts |-> IF i % 2 = 1 THEN <<>> ELSE <<"Bob", "Cy">>,
                     headcount |-> IF i % 2 = 0 THEN 0 ELSE 5 * i,
                     parent |-> p[i]]]

SeedSize == Len(seed)

----------------------------------------------------------------------------
(* The storage collaborator (client.models.Node)                           *)

QueryOutcomes == {"ok", "nodata", "throw"}

CreateOutcomes == {"ok", "errors", "throw"}

\* variant: the type argument is not used to select the partition
FindNodeByName_AnyType(st, type, name) == {n \in st : n.name = name}

\* listNodeByTypeAndName({type}) followed by find(n.name === name)
FindNodeByName(st, type, name) == {n \in st : n.type = type /\ n.name = name}

\* variant: the comparison in find never matches
FindChildByName_NoMatch(st, parentId, name) == {n \in st : n.parentId = parentId /\ n.id = NullId}

\* variant: the match is by name alone, across all parents
FindChildByName_AnyParent(st, parentId, name) == {n \in st : n.name = name}

\* listNodeByParentIdAndType({parentId}) followed by find(n.name === name)
FindChildByName(st, parentId, name) == {n \in st : n.parentId = parentId /\ n.name = name}

\* variant: an absent headcount is stored as 0
NewNode_HeadcountZero(id, type, seedNode, parentId) ==
    [id |-> id, type |-> type, name |-> seedNode.name, parentId |-> parentId,
     status |-> IF seedNode.status = Null THEN "red" ELSE seedNode.status,
     contact |-> IF "contact" \in seedNode.given THEN seedNode.contact ELSE Null,
     additionalContacts |-> IF "additionalContacts" \in seedNode.given
                            THEN seedNode.additionalContacts ELSE <<>>,
     headcount |-> IF "headcount" \in seedNode.given THEN seedNode.headcount ELSE 0]

\* the record client.models.Node.create stores for the input built from a seed entry:
\* status ?? 'red', contact ?? null, additionalContacts ?? [], headcount ?? null
NewNode(id, type, seedNode, parentId) ==
    [id |-> id, type |-> type, name |-> seedNode.name, parentId |-> parentId,
     status |-> IF seedNode.status = Null THEN "red" ELSE seedNode.status,
     contact |-> IF "contact" \in seedNode.given THEN seedNode.contact ELSE Null,
     additionalContacts |-> IF "additionalContacts" \in seedNode.given
                            THEN seedNode.additionalContacts ELSE <<>>,
     headcount |-> IF "headcount" \in seedNode.given THEN seedNode.headcount ELSE NullCount]

----------------------------------------------------------------------------
(* importSeedData                                                          *)

EmptyResult == [success |-> TRUE, nodesCreated |-> 0, nodesSkipped |-> 0, errors |-> <<>>]

Frame(children, parentId) == [children |-> children, parentId |-> parentId, i |-> 1]

\* variant: the catch block records the error but leaves success untouched
Catch_KeepsSuccess(res) ==
    [res EXCEPT !.errors = Append(@, [kind |-> "Import failed", name |-> Null])]

\* catch (error) { result.success = false; result.errors.push(`Import failed: ...`) }
Catch(res) ==
    [res EXCEPT !.success = FALSE,
                !.errors = Append(@, [kind |-> "Import failed", name |-> Null])]

\* variant: the root failure is recorded but success is left untouched
RootCreateFailed_KeepsSuccess(res) ==
    [res EXCEPT !.errors = Append(@, [kind |-> "Failed to create organisation", name |-> Null])]

\* if (errors) { result.success = false; result.errors.push(`Failed to create organisation`) }
RootCreateFailed(res) ==
    [res EXCEPT !.success = FALSE,
                !.errors = Append(@, [kind |-> "Failed to create organisation", name |-> Null])]

\* variant: a child failure also clears the success flag
ChildCreateFailed_Fatal(res, name) ==
    [res EXCEPT !.success = FALSE,
                !.errors = Append(@, [kind |-> "Failed to create", name |-> name])]

\* variant: without the `continue`, the failed child is counted as created too
ChildCreateFailed_Counted(res, name) ==
    [res EXCEPT !.nodesCreated = @ + 1,
                !.errors = Append(@, [kind |-> "Failed to create", name |-> name])]

\* if (errors) { result.errors.push(`Failed to create ${child.name}`); continue; }
ChildCreateFailed(res, name) ==
    [res EXCEPT !.errors = Append(@, [kind |-> "Failed to create", name |-> name])]

Skipped(res) == [res EXCEPT !.nodesSkipped = @ + 1]

Created(res) == [res EXCEPT !.nodesCreated = @ + 1]

\* Map.prototype.set
MapSet(m, k, v) == [x \in DOMAIN m \cup {k} |-> IF x = k THEN v ELSE m[x]]

\* one store call: the operation, the seed entry it serves, the parent id passed,
\* how it ended and the id it returned (NullId when none)
Call(op, entry, parentId, outcome, ret) ==
    [op |-> op, entry |-> entry, parentId |-> parentId, outcome |-> outcome, ret |-> ret]

\* a failing outcome uses up one unit of the failure budget
Inject(kind) ==
    /\ faults < MaxFaults
    /\ faults' = faults + 1
    /\ runFaults' = runFaults \cup {kind}

NoFault == UNCHANGED <<faults, runFaults>>

\* importSeedData has not been called: the store is empty
ImportIdle(sd) ==
    /\ seed = sd
    /\ store = {}
    /\ nextId = 1
    /\ pc = "idle"
    /\ stack = <<>>
    /\ result = EmptyResult
    /\ idMap = <<>>
    /\ calls = <<>>
    /\ run = 0
    /\ faults = 0
    /\ runFaults = {}
    /\ pastFaults = {}
    /\ startStore = {}

WalkIdle ==
    /\ wnodes = <<>>
    /\ wresult = <<>>
    /\ wstack = <<>>
    /\ wi = 1
    /\ wpc = "idle"
    /\ wshown = <<>>
    /\ wbody = <<>>
    /\ wmemo = <<>>
    /\ wmetrics = <<>>

StatusIdle ==
    /\ childStatuses = <<>>
    /\ fallback = Undefined
    /\ sresult = Undefined
    /\ spc = "idle"

ParseIdle ==
    /\ pnodes = <<>>
    /\ pqueue = <<>>
    /\ pnow = 0
    /\ ppc = "idle"
    /\ psrc = <<>>

HookIdle ==
    /\ hnodes = <<>>
    /\ hstore = {}
    /\ hnextId = 1
    /\ hlast = [op |-> "none", outcome |-> "none"]
    /\ hprev = <<>>
    /\ hops = 0
    /\ hflight = {}
    /\ hresolved = {}

DomainIdle ==
    /\ dcall = [fn |-> "none"]
    /\ dret = Undefined
    /\ dpc = "idle"

EditIdle ==
    /\ estate = [mode |-> "unmounted"]
    /\ evalue = Null
    /\ etimers = {}
    /\ epending = {}
    /\ esaves = 0
    /\ eoverlap = FALSE
    /\ eevents = 0

Init ==
    /\ \E n \in 1..MaxSeedNodes : \E p \in ParentVectors(n) : \E nm \in [1..n -> Names] :
          /\ nm[1] = OrgName
          /\ ImportIdle(ChainSeed(n, p, nm))
    /\ WalkIdle
    /\ StatusIdle
    /\ ParseIdle
    /\ HookIdle
    /\ DomainIdle
    /\ EditIdle

\* a call of importSeedData(client, seedData)
StartRun ==
    /\ pc \in {"idle", "done", "abandoned"}
    /\ run < MaxRuns
    /\ run' = run + 1
    /\ pc' = "rootLookup"
    /\ stack' = <<>>
    /\ result' = EmptyResult
    /\ idMap' = <<>>
    /\ calls' = <<>>
    /\ pastFaults' = pastFaults \cup runFaults
    /\ runFaults' = {}
    /\ startStore' = store
    /\ UNCHANGED <<seed, store, nextId, faults>>
    /\ UNCHANGED <<walkVars, statusVars, parseVars, hookVars, domainVars, editVars>>

\* the outcome of a list query as the caller sees it: `data` holds the matches, or
\* is null (the GraphQL errors are not looked at), or the promise rejects
QueryFault(outcome) == IF outcome = "throw" THEN "queryThrow" ELSE "queryNoData"

\* lines 46-63: findNodeByName(client, 'organisation', name) and the existingOrg branch
RootLookup ==
    /\ pc = "rootLookup"
    /\ \E outcome \in QueryOutcomes :
        LET found == IF outcome = "ok"
                     THEN FindNodeByName(store, "organisation", seed[1].name)
                     ELSE {}
        IN
        /\ IF outcome = "ok" THEN NoFault ELSE Inject(QueryFault(outcome))
        /\ CASE outcome = "throw" ->
                  /\ calls' = Append(calls, Call("findNodeByName", 1, NullId, outcome, NullId))
                  /\ result' = Catch(result)
                  /\ pc' = "done"
                  /\ UNCHANGED <<stack, idMap>>
             [] outcome # "throw" /\ found # {} ->
                  \E existingOrg \in found :
                      /\ calls' = Append(calls,
                                    Call("findNodeByName", 1, NullId, outcome, existingOrg.id))
                      /\ result' = Skipped(result)
                      /\ idMap' = MapSet(idMap, <<NullId, seed[1].name>>, existingOrg.id)
                      /\ stack' = <<Frame(SeedChildren(seed, 1), existingOrg.id)>>
                      /\ pc' = "children"
             [] outcome # "throw" /\ found = {} ->
                  /\ calls' = Append(calls, Call("findNodeByName", 1, NullId, outcome, NullId))
                  /\ pc' = "rootCreate"
                  /\ UNCHANGED <<result, idMap, stack>>
    /\ UNCHANGED <<seed, store, nextId, run, pastFaults, startStore>>
    /\ UNCHANGED <<walkVars, statusVars, parseVars, hookVars, domainVars, editVars>>

\* lines 65-89: create the organisation node
RootCreate ==
    /\ pc = "rootCreate"
    /\ \E outcome \in CreateOutcomes :
        CASE outcome = "throw" ->
                  /\ Inject("createThrow")
                  /\ calls' = Append(calls, Call("create", 1, NullId, outcome, NullId))
                  /\ result' = Catch(result)
                  /\ pc' = "done"
                  /\ UNCHANGED <<store, nextId, stack, idMap>>
          [] outcome = "errors" ->
                  /\ Inject("createErrors")
                  /\ calls' = Append(calls, Call("create", 1, NullId, outcome, NullId))
                  /\ result' = RootCreateFailed(result)
                  /\ pc' = "done"
                  /\ UNCHANGED <<store, nextId, stack, idMap>>
          [] outcome = "ok" ->
                  /\ NoFault
                  /\ calls' = Append(calls, Call("create", 1, NullId, outcome, nextId))
                  /\ store' = store \cup
                       {NewNode(nextId, "organisation", seed[1], NullId)}
                  /\ nextId' = nextId + 1
                  /\ result' = Created(result)
                  /\ idMap' = MapSet(idMap, <<NullId, seed[1].name>>, nextId)
                  /\ stack' = <<Frame(SeedChildren(seed, 1), nextId)>>
                  /\ pc' = "children"
    /\ UNCHANGED <<seed, run, pastFaults, startStore>>
    /\ UNCHANGED <<walkVars, statusVars, parseVars, hookVars, domainVars, editVars>>

Top == stack[Len(stack)]

AtChild == pc = "children" /\ stack # <<>> /\ Top.i <= Len(Top.children)

CurrentEntry == Top.children[Top.i]

\* the caller's loop moves on after processChildren returns, or after `continue`
Advance(stk) == [stk EXCEPT ![Len(stk)].i = @ + 1]

\* lines 107-118: findChildByName(client, parentId, child.name) and the existing branch
ChildLookup ==
    /\ AtChild
    /\ \E outcome \in QueryOutcomes :
        LET child == seed[CurrentEntry]
            found == IF outcome = "ok"
                     THEN FindChildByName(store, Top.parentId, child.name)
                     ELSE {}
        IN
        /\ IF outcome = "ok" THEN NoFault ELSE Inject(QueryFault(outcome))
        /\ CASE outcome = "throw" ->
                  /\ calls' = Append(calls,
                                Call("findChildByName", CurrentEntry, Top.parentId, outcome, NullId))
                  /\ result' = Catch(result)
                  /\ pc' = "done"
                  /\ UNCHANGED <<stack, idMap>>
             [] outcome # "throw" /\ found # {} ->
                  \E existing \in found :
                      /\ calls' = Append(calls,
                                    Call("findChildByName", CurrentEntry, Top.parentId, outcome,
                                         existing.id))
                      /\ result' = Skipped(result)
                      /\ idMap' = MapSet(idMap, <<Top.parentId, child.name>>, existing.id)
                      /\ stack' = Append(stack, Frame(SeedChildren(seed, CurrentEntry), existing.id))
                      /\ pc' = "children"
             [] outcome # "throw" /\ found = {} ->
                  /\ calls' = Append(calls,
                                Call("findChildByName", CurrentEntry, Top.parentId, outcome, NullId))
                  /\ pc' = "childCreate"
                  /\ UNCHANGED <<result, idMap, stack>>
    /\ UNCHANGED <<seed, store, nextId, run, pastFaults, startStore>>
    /\ UNCHANGED <<walkVars, statusVars, parseVars, hookVars, domainVars, editVars>>

\* lines 120-138: create the child node
ChildCreate ==
    /\ pc = "childCreate"
    /\ \E outcome \in CreateOutcomes :
        LET child == seed[CurrentEntry]
        IN
        CASE outcome = "throw" ->
                  /\ Inject("createThrow")
                  /\ calls' = Append(calls,
                                Call("create", CurrentEntry, Top.parentId, outcome, NullId))
                  /\ result' = Catch(result)
                  /\ pc' = "done"
                  /\ UNCHANGED <<store, nextId, stack, idMap>>
          [] outcome = "errors" ->
                  /\ Inject("createErrors")
                  /\ calls' = Append(calls,
                                Call("create", CurrentEntry, Top.parentId, outcome, NullId))
                  /\ result' = ChildCreateFailed(result, child.name)
                  /\ stack' = Advance(stack)
                  /\ pc' = "children"
                  /\ UNCHANGED <<store, nextId, idMap>>
          [] outcome = "ok" ->
                  /\ NoFault
                  /\ calls' = Append(calls,
                                Call("create", CurrentEntry, Top.parentId, outcome, nextId))
                  /\ store' = store \cup
                       {NewNode(nextId, child.type, child, Top.parentId)}
                  /\ nextId' = nextId + 1
                  /\ result' = Created(result)
                  /\ idMap' = MapSet(idMap, <<Top.parentId, child.name>>, nextId)
                  /\ stack' = Append(stack, Frame(SeedChildren(seed, CurrentEntry), nextId))
                  /\ pc' = "children"
    /\ UNCHANGED <<seed, run, pastFaults, startStore>>
    /\ UNCHANGED <<walkVars, statusVars, parseVars, hookVars, domainVars, editVars>>

\* the for loop of processChildren is exhausted: return to the caller
ChildrenReturn ==
    /\ pc = "children"
    /\ stack # <<>>
    /\ Top.i > Len(Top.children)
    /\ IF Len(stack) = 1
       THEN /\ stack' = <<>>
            /\ pc' = "done"
       ELSE /\ stack' = Advance(SubSeq(stack, 1, Len(stack) - 1))
            /\ pc' = "children"
    /\ UNCHANGED <<seed, store, nextId, result, idMap, calls, run, faults, runFaults,
                   pastFaults, startStore>>
    /\ UNCHANGED <<walkVars, statusVars, parseVars, hookVars, domainVars, editVars>>

\* the caller gives up on the pending promise (external timeout, process killed)
Abandon ==
    /\ pc \in {"rootLookup", "rootCreate", "children", "childCreate"}
    /\ Inject("abandon")
    /\ pc' = "abandoned"
    /\ UNCHANGED <<seed, store, nextId, stack, result, idMap, calls, run, pastFaults, startStore>>
    /\ UNCHANGED <<walkVars, statusVars, parseVars, hookVars, domainVars, editVars>>

ImportNext ==
    \/ StartRun
    \/ RootLookup
    \/ RootCreate
    \/ ChildLookup
    \/ ChildCreate
    \/ ChildrenReturn
    \/ Abandon

----------------------------------------------------------------------------
(* calculateAggregatedCounts over the children index of HierarchyTree      *)

\* x ?? 0
Coalesce(x) == IF x \in {NullCount, UndefCount} THEN 0 ELSE x

\* the kinds of node the walker is run on: type, whether the id is set, the stored
\* status, the counts
NodeTemplates ==
    { [type |-> "department", hasId |-> TRUE,  status |-> "green",
       deviceCount |-> 4,         completedCount |-> 4],
      [type |-> "cohort",     hasId |-> TRUE,  status |-> "red",
       deviceCount |-> 2,         completedCount |-> 1],
      [type |-> "cohort",     hasId |-> TRUE,  status |-> "blue",
       deviceCount |-> 1,         completedCount |-> NullCount],
      [type |-> "cohort",     hasId |-> TRUE,  status |-> "amber",
       deviceCount |-> NullCount, completedCount |-> 1],
      [type |-> "cohort",     hasId |-> FALSE, status |-> "green",
       deviceCount |-> 2,         completedCount |-> 2] }

MkNode(i, parentId, t) ==
    [id |-> IF t.hasId THEN i ELSE NullId, parentId |-> parentId, type |-> t.type,
     status |-> t.status, deviceCount |-> t.deviceCount, completedCount |-> t.completedCount]

\* childrenMap: parentId -> the nodes with that parentId, in input order
ChildrenMap(nodes, parentId) == SelectSeq(nodes, LAMBDA n : n.parentId = parentId)

\* variant: completedCount is read from the deviceCount field
CohortCounts_WrongField(child) ==
    [deviceCount |-> Coalesce(child.deviceCount),
     completedCount |-> Coalesce(child.deviceCount)]

\* the contribution of a cohort child: (deviceCount ?? 0, completedCount ?? 0)
CohortCounts(child) ==
    [deviceCount |-> Coalesce(child.deviceCount),
     completedCount |-> Coalesce(child.completedCount)]

AggFrame(nodeId) == [nodeId |-> nodeId, k |-> 1, deviceCount |-> 0, completedCount |-> 0]

AddCounts(f, c) ==
    [f EXCEPT !.deviceCount = @ + c.deviceCount,
              !.completedCount = @ + c.completedCount,
              !.k = @ + 1]

\* the depth of recursion the engine's call stack allows; deeper than any acyclic
\* input of the modelled size needs
StackLimit == MaxNodes + 2

WTop == wstack[Len(wstack)]

\* variant: the memo map is never consulted
ResultHas_Never(memo, nodeId) == FALSE

\* line 30: result.has(nodeId)
ResultHas(memo, nodeId) == nodeId \in DOMAIN memo

\* one more occurrence of k in the tally m
Tally(m, k) == MapSet(m, k, IF k \in DOMAIN m THEN m[k] + 1 ELSE 1)

WChildren == ChildrenMap(wnodes, WTop.nodeId)

WalkInit ==
    /\ \E n \in 1..MaxNodes : \E par \in [1..n -> 0..n] : \E t \in [1..n -> NodeTemplates] :
          wnodes = [i \in 1..n |-> MkNode(i, par[i], t[i])]
    /\ wresult = <<>>
    /\ wstack = <<>>
    /\ wi = 1
    /\ wpc = "run"
    /\ wshown = <<>>
    /\ wbody = <<>>
    /\ wmemo = <<>>
    /\ wmetrics = <<>>
    /\ ImportIdle(<<>>)
    /\ StatusIdle
    /\ ParseIdle
    /\ HookIdle
    /\ DomainIdle
    /\ EditIdle

\* enter aggregate(nodeId): answer from the memo map or open an activation
\* lines 56-60: the top-level loop calls aggregate for every node that has an id
WalkCall ==
    /\ wpc = "run" /\ wstack = <<>> /\ wi <= Len(wnodes)
    /\ LET node == wnodes[wi]
       IN  CASE node.id = NullId ->
                    /\ wi' = wi + 1
                    /\ UNCHANGED <<wstack, wbody, wmemo>>
             [] node.id # NullId /\ ResultHas(wresult, node.id) ->
                    /\ wi' = wi + 1
                    /\ wmemo' = Tally(wmemo, node.id)
                    /\ UNCHANGED <<wstack, wbody>>
             [] node.id # NullId /\ ~ResultHas(wresult, node.id) ->
                    /\ wstack' = <<AggFrame(node.id)>>
                    /\ wbody' = Tally(wbody, node.id)
                    /\ UNCHANGED <<wi, wmemo>>
    /\ UNCHANGED <<wnodes, wresult, wpc, wshown, wmetrics>>
    /\ UNCHANGED <<importVars, statusVars, parseVars, hookVars, domainVars, editVars>>

\* lines 38-49: one iteration of `for (const child of children)`
AggStep ==
    /\ wpc = "run" /\ wstack # <<>> /\ WTop.k <= Len(WChildren)
    /\ LET child == WChildren[WTop.k]
           top == Len(wstack)
       IN  CASE child.id = NullId ->
                    /\ wstack' = [wstack EXCEPT ![top].k = @ + 1]
                    /\ UNCHANGED <<wpc, wbody, wmemo>>
             [] child.id # NullId /\ child.type = "cohort" ->
                    /\ wstack' = [wstack EXCEPT ![top] = AddCounts(@, CohortCounts(child))]
                    /\ UNCHANGED <<wpc, wbody, wmemo>>
             [] child.id # NullId /\ child.type # "cohort" /\ ResultHas(wresult, child.id) ->
                    /\ wstack' = [wstack EXCEPT ![top] = AddCounts(@, wresult[child.id])]
                    /\ wmemo' = Tally(wmemo, child.id)
                    /\ UNCHANGED <<wpc, wbody>>
             [] child.id # NullId /\ child.type # "cohort" /\ ~ResultHas(wresult, child.id) ->
                    IF Len(wstack) < StackLimit
                    THEN /\ wstack' = Append(wstack, AggFrame(child.id))
                         /\ wbody' = Tally(wbody, child.id)
                         /\ UNCHANGED <<wpc, wmemo>>
                    ELSE /\ wpc' = "RangeError"
                         /\ UNCHANGED <<wstack, wbody, wmemo>>
    /\ UNCHANGED <<wnodes, wresult, wi, wshown, wmetrics>>
    /\ UNCHANGED <<importVars, statusVars, parseVars, hookVars, domainVars, editVars>>

\* lines 51-53: result.set(nodeId, counts); return counts
AggReturn ==
    /\ wpc = "run" /\ wstack # <<>> /\ WTop.k > Len(WChildren)
    /\ LET counts == [deviceCount |-> WTop.deviceCount, completedCount |-> WTop.completedCount]
           rest == SubSeq(wstack, 1, Len(wstack) - 1)
       IN  /\ wresult' = MapSet(wresult, WTop.nodeId, counts)
           /\ IF rest = <<>>
              THEN /\ wstack' = <<>>
                   /\ wi' = wi + 1
              ELSE /\ wstack' = [rest EXCEPT ![Len(rest)] = AddCounts(@, counts)]
                   /\ UNCHANGED wi
    /\ UNCHANGED <<wnodes, wpc, wshown, wbody, wmemo, wmetrics>>
    /\ UNCHANGED <<importVars, statusVars, parseVars, hookVars, domainVars, editVars>>

\* line 62: return result
WalkDone ==
    /\ wpc = "run" /\ wstack = <<>> /\ wi > Len(wnodes)
    /\ wpc' = "done"
    /\ UNCHANGED <<wnodes, wresult, wstack, wi, wshown, wbody, wmemo, wmetrics>>
    /\ UNCHANGED <<importVars, statusVars, parseVars, hookVars, domainVars, editVars>>

\* what TreeNode puts on screen for a node: the status indicator's class and the
\* counts of the device badge (the node's own for a cohort, the aggregated otherwise)
TreeNodeView(node, aggregated) ==
    [status |-> node.status,
     deviceCount |-> IF node.type = "cohort" THEN node.deviceCount ELSE aggregated.deviceCount,
     completedCount |-> IF node.type = "cohort" THEN node.completedCount
                        ELSE aggregated.completedCount]

\* renderNode: the node itself and, every node being expanded, its children in turn;
\* a node without id renders nothing
RECURSIVE RenderNode(_, _, _)
RenderNode(nodes, counts, parentId) ==
    LET children == ChildrenMap(nodes, parentId)
        Below(k) == IF children[k].id = NullId THEN {}
                    ELSE {<<children[k].id, TreeNodeView(children[k], counts[children[k].id])>>}
                         \cup RenderNode(nodes, counts, children[k].id)
    IN  UNION {Below(k) : k \in 1..Len(children)}

\* HierarchyTree's return: rootNodes.map((node) => renderNode(node))
Render ==
    /\ wpc = "done"
    /\ LET rows == RenderNode(wnodes, wresult, NullId)
       IN  wshown' = [id \in {r[1] : r \in rows} |-> (CHOOSE r \in rows : r[1] = id)[2]]
    /\ wpc' = "rendered"
    /\ UNCHANGED <<wnodes, wresult, wstack, wi, wbody, wmemo, wmetrics>>
    /\ UNCHANGED <<importVars, statusVars, parseVars, hookVars, domainVars, editVars>>

----------------------------------------------------------------------------
(* calculateStatus                                                         *)

\* childStatuses.some((status) => status === s)
RECURSIVE Some(_, _)
Some(cs, s) == IF cs = <<>> THEN FALSE ELSE Head(cs) = s \/ Some(Tail(cs), s)

\* childStatuses.every((status) => status === s)
RECURSIVE Every(_, _)
Every(cs, s) == IF cs = <<>> THEN TRUE ELSE Head(cs) = s /\ Every(Tail(cs), s)

\* STATUS_PRIORITY: red is the worst and has the smallest number
StatusPriority(s) ==
    CASE s = "red" -> 0
      [] s = "amber" -> 1
      [] s = "green" -> 2
      [] s = "blue" -> 3

\* variant: the comparison is turned round
GetWorstStatus_Best(a, b) == IF StatusPriority(a) > StatusPriority(b) THEN a ELSE b

\* getWorstStatus(a, b): STATUS_PRIORITY[a] < STATUS_PRIORITY[b] ? a : b
GetWorstStatus(a, b) == IF StatusPriority(a) < StatusPriority(b) THEN a ELSE b

\* variant: amber is looked for before red
CalculateStatus_AmberFirst(cs, fb) ==
    IF Len(cs) = 0 THEN (IF fb = Undefined THEN "red" ELSE fb)
    ELSE IF Some(cs, "amber") THEN "amber"
    ELSE IF Some(cs, "red") THEN "red"
    ELSE IF Every(cs, "blue") THEN "blue"
    ELSE "green"

\* variant: blue as soon as one child is blue
CalculateStatus_SomeBlue(cs, fb) ==
    IF Len(cs) = 0 THEN (IF fb = Undefined THEN "red" ELSE fb)
    ELSE IF Some(cs, "red") THEN "red"
    ELSE IF Some(cs, "amber") THEN "amber"
    ELSE IF Some(cs, "blue") THEN "blue"
    ELSE "green"

\* calculateStatus(childStatuses, fallback = 'red')
CalculateStatus(cs, fb) ==
    IF Len(cs) = 0 THEN (IF fb = Undefined THEN "red" ELSE fb)
    ELSE IF Some(cs, "red") THEN "red"
    ELSE IF Some(cs, "amber") THEN "amber"
    ELSE IF Every(cs, "blue") THEN "blue"
    ELSE "green"

StatusInit ==
    /\ \E n \in 0..MaxStatuses : childStatuses \in [1..n -> Statuses]
    /\ fallback \in Statuses \cup {Undefined}
    /\ sresult = Undefined
    /\ spc = "call"
    /\ ImportIdle(<<>>)
    /\ WalkIdle
    /\ ParseIdle
    /\ HookIdle
    /\ DomainIdle
    /\ EditIdle

CallCalculateStatus ==
    /\ spc = "call"
    /\ sresult' = CalculateStatus(childStatuses, fallback)
    /\ spc' = "done"
    /\ UNCHANGED <<childStatuses, fallback>>
    /\ UNCHANGED <<importVars, walkVars, parseVars, hookVars, domainVars, editVars>>

StatusNext == CallCalculateStatus

----------------------------------------------------------------------------
(* parseSeedData                                                           *)

Times == {1, 2}

\* the values crypto.randomUUID() can return: any identifier not handed out before
UuidPool == 1..(MaxSeedNodes + 1)

\* variant: the generator can repeat an identifier
FreshUuids_Repeating(used) == UuidPool

FreshUuids(used) == UuidPool \ used

UsedUuids == {pnodes[k].id : k \in 1..Len(pnodes)}

\* variant: the defaults are applied with || instead of ??, so that zero and the empty
\* string count as absent
CreateNodeFromSeed_Falsy(seedNode, parentId, timestamp, uuid) ==
    [id |-> uuid,
     type |-> IF seedNode.type = Null THEN "organisation" ELSE seedNode.type,
     name |-> seedNode.name,
     parentId |-> parentId,
     status |-> IF seedNode.status = Null THEN "red" ELSE seedNode.status,
     contact |-> IF "contact" \in seedNode.given /\ seedNode.contact # ""
                 THEN seedNode.contact ELSE Null,
     additionalContacts |-> IF "additionalContacts" \in seedNode.given
                            THEN seedNode.additionalContacts ELSE <<>>,
     headcount |-> IF "headcount" \in seedNode.given /\ seedNode.headcount # 0
                   THEN seedNode.headcount ELSE NullCount,
     deviceType |-> Null,
     deviceCount |-> NullCount,
     completedCount |-> NullCount,
     location |-> Null,
     confluenceUrl |-> Null,
     jiraUrl |-> Null,
     notes |-> Null,
     createdAt |-> timestamp,
     updatedAt |-> timestamp]

\* createNodeFromSeed(seedNode, parentId, timestamp), with the uuid it draws
CreateNodeFromSeed(seedNode, parentId, timestamp, uuid) ==
    [id |-> uuid,
     type |-> IF seedNode.type = Null THEN "organisation" ELSE seedNode.type,
     name |-> seedNode.name,
     parentId |-> parentId,
     status |-> IF seedNode.status = Null THEN "red" ELSE seedNode.status,
     contact |-> IF "contact" \in seedNode.given THEN seedNode.contact ELSE Null,
     additionalContacts |-> IF "additionalContacts" \in seedNode.given
                            THEN seedNode.additionalContacts ELSE <<>>,
     headcount |-> IF "headcount" \in seedNode.given THEN seedNode.headcount ELSE NullCount,
     deviceType |-> Null,
     deviceCount |-> NullCount,
     completedCount |-> NullCount,
     location |-> Null,
     confluenceUrl |-> Null,
     jiraUrl |-> Null,
     notes |-> Null,
     createdAt |-> timestamp,
     updatedAt |-> timestamp]

\* allowedChildTypes: the child types the add-node dialogue offers under a parent
AllowedChildTypes(parentType) ==
    CASE parentType = "organisation"  -> {"directorate", "cohort"}
      [] parentType = "directorate"   -> {"department", "cohort"}
      [] parentType = "department"    -> {"subdepartment", "cohort"}
      [] parentType = "subdepartment" -> {"cohort"}
      [] OTHER                        -> {}

\* for (const child of children) queue.push({ node: child, parentId })
QueueItems(sd, i, parentId) ==
    LET ch == SeedChildren(sd, i)
    IN  [k \in 1..Len(ch) |-> [node |-> ch[k], parentId |-> parentId]]

\* variant: the new items go to the front of the queue
Enqueue_Front(queue, items) == items \o queue

\* queue.push(...) for each item in turn: the items join the end of the queue
Enqueue(queue, items) == queue \o items

ParseInit ==
    /\ \E n \in 1..MaxSeedNodes : \E p \in ParentVectors(n) : \E explicit \in [1..n -> BOOLEAN] :
       \E shift \in 0..1 :
          /\ explicit[1]
          /\ ImportIdle(PartlyTypedSeed(n, p, explicit, shift))
    /\ pnodes = <<>>
    /\ pqueue = <<>>
    /\ pnow \in Times
    /\ ppc = "root"
    /\ psrc = <<>>
    /\ WalkIdle
    /\ StatusIdle
    /\ HookIdle
    /\ DomainIdle
    /\ EditIdle

\* lines 40-59: the organisation is emitted first and its children are queued
ParseRoot ==
    /\ ppc = "root"
    /\ \E uuid \in FreshUuids(UsedUuids) :
          LET rootNode == CreateNodeFromSeed([seed[1] EXCEPT !.type = "organisation"],
                                             NullId, pnow, uuid)
          IN  /\ pnodes' = Append(pnodes, rootNode)
              /\ psrc' = Append(psrc, 1)
              /\ pqueue' = Enqueue(pqueue, QueueItems(seed, 1, rootNode.id))
    /\ ppc' = "loop"
    /\ UNCHANGED pnow
    /\ UNCHANGED <<importVars, walkVars, statusVars, hookVars, domainVars, editVars>>

\* lines 62-74: one iteration of `while (queue.length > 0)`
ParseStep ==
    /\ ppc = "loop" /\ pqueue # <<>>
    /\ \E uuid \in FreshUuids(UsedUuids) :
          LET item == Head(pqueue)
              node == CreateNodeFromSeed(seed[item.node], item.parentId, pnow, uuid)
          IN  /\ pnodes' = Append(pnodes, node)
              /\ psrc' = Append(psrc, item.node)
              /\ pqueue' = Enqueue(Tail(pqueue), QueueItems(seed, item.node, node.id))
    /\ UNCHANGED <<pnow, ppc>>
    /\ UNCHANGED <<importVars, walkVars, statusVars, hookVars, domainVars, editVars>>

\* line 76: return nodes
ParseReturn ==
    /\ ppc = "loop" /\ pqueue = <<>>
    /\ ppc' = "done"
    /\ UNCHANGED <<pnodes, pqueue, pnow, psrc>>
    /\ UNCHANGED <<importVars, walkVars, statusVars, hookVars, domainVars, editVars>>

ParseNext ==
    \/ ParseRoot
    \/ ParseStep
    \/ ParseReturn

----------------------------------------------------------------------------
(* useNodes: the hook's node list and its mutations                        *)

\* the values a count field is given: null, or a number
CountValues == {NullCount, 1, 2}

\* the (deviceCount, completedCount) pairs a created node comes with
CountPairs == {<<NullCount, NullCount>>, <<2, 1>>, <<1, 2>>}

\* the outcome of a mutation of client.models.Node: the record, or errors
MutationOutcomes == {"ok", "errors"}

HookNode(id, parentId, deviceCount, completedCount) ==
    [id |-> id, parentId |-> parentId, deviceCount |-> deviceCount,
     completedCount |-> completedCount]

\* the refinement of NodeSchema: when both counts are present, completedCount must
\* not exceed deviceCount
NodeSchemaRefine(data) ==
    IF /\ data.deviceCount \notin {NullCount, UndefCount}
       /\ data.completedCount \notin {NullCount, UndefCount}
    THEN data.completedCount <= data.deviceCount
    ELSE TRUE

HookIds(nodes) == {nodes[k].id : k \in 1..Len(nodes)}

\* { id, ...input }: the fields the input names replace those of the stored record
Merge(node, input) ==
    [f \in DOMAIN node |-> IF f \in DOMAIN input THEN input[f] ELSE node[f]]

\* the partial inputs of updateNode: one count field and its new value
UpdateInputs ==
    UNION {[{f} -> CountValues] : f \in {"deviceCount", "completedCount"}}

\* prev.map((n) => (n.id === id ? updatedNode : n))
MapReplace(nodes, id, updatedNode) ==
    [k \in 1..Len(nodes) |-> IF nodes[k].id = id THEN updatedNode ELSE nodes[k]]

\* prev.filter((n) => n.id !== id)
FilterOut(nodes, id) == SelectSeq(nodes, LAMBDA n : n.id # id)

\* the hook is mounted and fetchNodes has loaded the table: nothing, the
\* organisation, or the organisation and a cohort below it
HookInit ==
    /\ \E n \in 0..2 :
          hnodes = SubSeq(<<HookNode(1, NullId, NullCount, NullCount), HookNode(2, 1, 2, 1)>>,
                          1, n)
    /\ hstore = Range(hnodes)
    /\ hnextId = Len(hnodes) + 1
    /\ hlast = [op |-> "none", outcome |-> "none"]
    /\ hprev = <<>>
    /\ hops = 0
    /\ hflight = {}
    /\ hresolved = {}
    /\ ImportIdle(<<>>)
    /\ WalkIdle
    /\ StatusIdle
    /\ ParseIdle
    /\ DomainIdle
    /\ EditIdle

\* createNode(input): client.models.Node.create, then setNodes(prev => [...prev, newNode])
HookCreateNode ==
    /\ hops < MaxOps
    /\ \E parentId \in HookIds(hnodes) \cup {NullId} : \E counts \in CountPairs :
       \E outcome \in MutationOutcomes :
          LET input == [parentId |-> parentId, deviceCount |-> counts[1],
                        completedCount |-> counts[2]]
              newNode == HookNode(hnextId, parentId, counts[1], counts[2])
          IN  /\ hlast' = [op |-> "createNode", id |-> NullId, input |-> input,
                           outcome |-> outcome]
              /\ IF outcome = "ok"
                 THEN /\ hstore' = hstore \cup {newNode}
                      /\ hnextId' = hnextId + 1
                      /\ hnodes' = Append(hnodes, newNode)
                 ELSE UNCHANGED <<hstore, hnextId, hnodes>>
    /\ hprev' = hnodes
    /\ hops' = hops + 1
    /\ UNCHANGED <<hflight, hresolved>>
    /\ UNCHANGED <<importVars, walkVars, statusVars, parseVars, domainVars, editVars>>

\* updateNode(id, input): client.models.Node.update({ id, ...input }), then the
\* returned record replaces the list entry of that id
HookUpdateNode ==
    /\ hops < MaxOps
    /\ \E id \in HookIds(hnodes) : \E input \in UpdateInputs :
       \E outcome \in MutationOutcomes :
          LET stored == {n \in hstore : n.id = id}
              ok == outcome = "ok" /\ stored # {}
          IN  /\ hlast' = [op |-> "updateNode", id |-> id, input |-> input,
                           outcome |-> IF ok THEN "ok" ELSE "errors"]
              /\ IF ok
                 THEN \E n \in stored :
                          LET updatedNode == Merge(n, input)
                          IN  /\ hstore' = (hstore \ {n}) \cup {updatedNode}
                              /\ hnodes' = MapReplace(hnodes, id, updatedNode)
                 ELSE UNCHANGED <<hstore, hnodes>>
    /\ hprev' = hnodes
    /\ hops' = hops + 1
    /\ UNCHANGED <<hnextId, hflight, hresolved>>
    /\ UNCHANGED <<importVars, walkVars, statusVars, parseVars, domainVars, editVars>>

\* deleteNode(id): client.models.Node.delete({ id }), then the entry of that id is
\* filtered out of the list
HookDeleteNode ==
    /\ hops < MaxOps
    /\ \E id \in HookIds(hnodes) : \E outcome \in MutationOutcomes :
          /\ hlast' = [op |-> "deleteNode", id |-> id, input |-> <<>>, outcome |-> outcome]
          /\ IF outcome = "ok"
             THEN /\ hstore' = {n \in hstore : n.id # id}
                  /\ hnodes' = FilterOut(hnodes, id)
             ELSE UNCHANGED <<hstore, hnodes>>
    /\ hprev' = hnodes
    /\ hops' = hops + 1
    /\ UNCHANGED <<hnextId, hflight, hresolved>>
    /\ UNCHANGED <<importVars, walkVars, statusVars, parseVars, domainVars, editVars>>

HookNext ==
    \/ HookCreateNode
    \/ HookUpdateNode
    \/ HookDeleteNode

----------------------------------------------------------------------------
(* useNodes with its awaits: a call sends its request, the table answers,  *)
(* and the continuation after the await runs later, in any order           *)

NoNode == HookNode(NullId, NullId, NullCount, NullCount)

\* a pending call: its number, the operation, whether the table has answered, how,
\* and the data of the answer
Pending(call, op, input) ==
    [call |-> call, op |-> op, input |-> input, phase |-> "sent", outcome |-> "none",
     list |-> <<>>, node |-> NoNode]

\* client.models.Node.list: the records of the table, by id (one page)
RECURSIVE ListNodes(_)
ListNodes(table) ==
    IF table = {} THEN <<>>
    ELSE LET last == CHOOSE n \in table : \A m \in table : m.id <= n.id
         IN  Append(ListNodes(table \ {last}), last)

\* lines 550-553: fetchNodes() / refetch() sends the list request
CallFetchNodes ==
    /\ hops < MaxOps
    /\ hops' = hops + 1
    /\ hflight' = hflight \cup {Pending(hops + 1, "list", NoNode)}
    /\ UNCHANGED <<hnodes, hstore, hnextId, hlast, hprev, hresolved>>
    /\ UNCHANGED <<importVars, walkVars, statusVars, parseVars, domainVars, editVars>>

\* lines 587-605: createNode(input) sends the create request
CallCreateNode ==
    /\ hops < MaxOps
    /\ \E parentId \in HookIds(hnodes) \cup {NullId} :
          hflight' = hflight \cup
              {Pending(hops + 1, "create", HookNode(NullId, parentId, NullCount, NullCount))}
    /\ hops' = hops + 1
    /\ UNCHANGED <<hnodes, hstore, hnextId, hlast, hprev, hresolved>>
    /\ UNCHANGED <<importVars, walkVars, statusVars, parseVars, domainVars, editVars>>

\* the table answers a list request with its records as they are now, or with errors
ServeList ==
    /\ \E c \in hflight : \E outcome \in MutationOutcomes :
          /\ c.op = "list" /\ c.phase = "sent"
          /\ hflight' = (hflight \ {c}) \cup
                {[c EXCEPT !.phase = "served", !.outcome = outcome,
                           !.list = IF outcome = "ok" THEN ListNodes(hstore) ELSE <<>>]}
    /\ UNCHANGED <<hnodes, hstore, hnextId, hlast, hprev, hops, hresolved>>
    /\ UNCHANGED <<importVars, walkVars, statusVars, parseVars, domainVars, editVars>>

\* the table answers a create request: the record is stored under a new id, or errors
ServeCreate ==
    /\ \E c \in hflight : \E outcome \in MutationOutcomes :
          /\ c.op = "create" /\ c.phase = "sent"
          /\ IF outcome = "ok"
             THEN LET newNode == [c.input EXCEPT !.id = hnextId]
                  IN  /\ hstore' = hstore \cup {newNode}
                      /\ hnextId' = hnextId + 1
                      /\ hflight' = (hflight \ {c}) \cup
                            {[c EXCEPT !.phase = "served", !.outcome = "ok", !.node = newNode]}
             ELSE /\ hflight' = (hflight \ {c}) \cup
                            {[c EXCEPT !.phase = "served", !.outcome = "errors"]}
                  /\ UNCHANGED <<hstore, hnextId>>
    /\ UNCHANGED <<hnodes, hlast, hprev, hops, hresolved>>
    /\ UNCHANGED <<importVars, walkVars, statusVars, parseVars, domainVars, editVars>>

\* lines 563-580: the continuation of fetchNodes: setNodes(allNodes), or setError
FetchNodesDone ==
    /\ \E c \in hflight :
          /\ c.op = "list" /\ c.phase = "served"
          /\ hflight' = hflight \ {c}
          /\ hprev' = hnodes
          /\ hlast' = [op |-> "fetchNodes", outcome |-> c.outcome]
          /\ IF c.outcome = "ok" THEN hnodes' = c.list ELSE UNCHANGED hnodes
    /\ UNCHANGED <<hstore, hnextId, hops, hresolved>>
    /\ UNCHANGED <<importVars, walkVars, statusVars, parseVars, domainVars, editVars>>

\* lines 607-613: the continuation of createNode: throw, or
\* setNodes((prev) => [...prev, newNode]) and return newNode
CreateNodeDone ==
    /\ \E c \in hflight :
          /\ c.op = "create" /\ c.phase = "served"
          /\ hflight' = hflight \ {c}
          /\ hprev' = hnodes
          /\ hlast' = [op |-> "createNode", outcome |-> c.outcome]
          /\ IF c.outcome = "ok"
             THEN /\ hnodes' = Append(hnodes, c.node)
                  /\ hresolved' = hresolved \cup {c.node.id}
             ELSE UNCHANGED <<hnodes, hresolved>>
    /\ UNCHANGED <<hstore, hnextId, hops>>
    /\ UNCHANGED <<importVars, walkVars, statusVars, parseVars, domainVars, editVars>>

HookAsyncNext ==
    \/ CallFetchNodes
    \/ CallCreateNode
    \/ ServeList
    \/ ServeCreate
    \/ FetchNodesDone
    \/ CreateNodeDone

----------------------------------------------------------------------------
(* The domain functions: getWorstStatus, aggregateDeviceCounts,            *)
(* calculateCompletionPercentage                                           *)

\* the significand of a JavaScript number (IEEE 754 binary64) has 53 bits
Precision == 53

\* Natural numbers beyond the range of the checker's integers are written as
\* sequences of digits to this base, most significant first (the empty one is zero)
Base == 32768

BaseBits == 15

RECURSIVE Strip(_)
Strip(x) == IF x # <<>> /\ x[1] = 0 THEN Strip(Tail(x)) ELSE x

\* x * k + carry, for 0 < k <= Base and carry < Base
RECURSIVE BigMulAdd(_, _, _)
BigMulAdd(x, k, carry) ==
    IF x = <<>> THEN (IF carry = 0 THEN <<>> ELSE <<carry>>)
    ELSE LET v == x[Len(x)] * k + carry
         IN  Append(BigMulAdd(SubSeq(x, 1, Len(x) - 1), k, v \div Base), v % Base)

\* quotient and remainder of x by d, for 0 < d < Base \div 2
RECURSIVE BigDivMod(_, _)
BigDivMod(x, d) ==
    IF x = <<>> THEN [q |-> <<>>, r |-> 0]
    ELSE LET front == BigDivMod(SubSeq(x, 1, Len(x) - 1), d)
             cur == front.r * Base + x[Len(x)]
         IN  [q |-> Append(front.q, cur \div d), r |-> cur % d]

\* x * 2^n
RECURSIVE BigShl(_, _)
BigShl(x, n) ==
    IF n >= BaseBits THEN BigShl(Append(x, 0), n - BaseBits)
    ELSE BigMulAdd(x, 2^n, 0)

\* x \div 2^n
RECURSIVE BigShr(_, _)
BigShr(x, n) ==
    IF x = <<>> THEN <<>>
    ELSE IF n >= BaseBits THEN BigShr(SubSeq(x, 1, Len(x) - 1), n - BaseBits)
    ELSE Strip(BigDivMod(x, 2^n).q)

RECURSIVE BigToInt(_)
BigToInt(x) ==
    IF x = <<>> THEN 0 ELSE BigToInt(SubSeq(x, 1, Len(x) - 1)) * Base + x[Len(x)]

RECURSIVE BitLength(_)
BitLength(n) == IF n = 0 THEN 0 ELSE 1 + BitLength(n \div 2)

BigBitLength(x) == IF x = <<>> THEN 0 ELSE (Len(x) - 1) * BaseBits + BitLength(x[1])

\* a positive number with a significand m of Precision bits and the exponent e of its
\* last bit: the value is m * 2^e
Float(m, e) == [m |-> m, e |-> e]

\* round to nearest, ties to even: m is the exact significand cut off after Precision
\* bits, e the exponent of its last bit; `above` tells how what was cut off compares
\* with half a unit in the last place (-1 less, 0 equal, 1 more)
RoundNearestEven(m, e, above) ==
    IF above = 1 \/ (above = 0 /\ m[Len(m)] % 2 = 1)
    THEN LET up == BigMulAdd(m, 1, 1)
         IN  IF BigBitLength(up) > Precision
             THEN Float(BigShr(up, 1), e + 1)
             ELSE Float(up, e)
    ELSE Float(m, e)

\* the exponent e with 2^e <= c / t < 2^(e + 1), for c, t > 0
RECURSIVE Exponent(_, _)
Exponent(c, t) ==
    IF c >= 2 * t THEN 1 + Exponent(c, 2 * t)
    ELSE IF c < t THEN Exponent(2 * c, t) - 1
    ELSE 0

\* c / t as the division of two numbers yields it, for integers 0 < c, t < Base \div 2
FloatDiv(c, t) ==
    LET e == Exponent(c, t) - (Precision - 1)
        d == BigDivMod(BigShl(<<c>>, -e), t)
        above == IF 2 * d.r > t THEN 1 ELSE IF 2 * d.r = t THEN 0 ELSE -1
    IN  RoundNearestEven(Strip(d.q), e, above)

\* x * k as the multiplication of two numbers yields it, for an integer 0 < k < 256
FloatMul(x, k) ==
    LET exact == BigMulAdd(x.m, k, 0)
        cut == BigBitLength(exact) - Precision
        d == BigDivMod(exact, 2^cut)
        above == IF 2 * d.r > 2^cut THEN 1
                 ELSE IF 2 * d.r = 2^cut THEN 0
                 ELSE -1
    IN  RoundNearestEven(Strip(d.q), x.e + cut, above)

\* Math.round(x): the integer nearest to x, a fraction of exactly one half going up;
\* for x below Base
MathRound(x) ==
    IF x.e >= 0 THEN BigToInt(BigShl(x.m, x.e))
    ELSE (BigToInt(BigShr(x.m, -x.e - 1)) + 1) \div 2

\* calculateCompletionPercentage(completed, total):
\* Math.min(Math.round((completed / total) * 100), 100), and 0 when total === 0
CalculateCompletionPercentage(completed, total) ==
    IF total = 0 THEN 0
    ELSE IF completed = 0 THEN 0
    ELSE Min(MathRound(FloatMul(FloatDiv(completed, total), 100)), 100)

\* cohorts.reduce((sum, cohort) => sum + (cohort[field] ?? 0), 0)
RECURSIVE ReduceSum(_, _)
ReduceSum(cohorts, field) ==
    IF cohorts = <<>> THEN 0
    ELSE ReduceSum(SubSeq(cohorts, 1, Len(cohorts) - 1), field)
           + Coalesce(cohorts[Len(cohorts)][field])

\* variant: both totals are summed from deviceCount
AggregateDeviceCounts_OneField(cohorts) ==
    [totalDevices |-> ReduceSum(cohorts, "deviceCount"),
     totalCompleted |-> ReduceSum(cohorts, "deviceCount")]

\* aggregateDeviceCounts(cohorts)
AggregateDeviceCounts(cohorts) ==
    [totalDevices |-> ReduceSum(cohorts, "deviceCount"),
     totalCompleted |-> ReduceSum(cohorts, "completedCount")]

\* the values of a DeviceCounts field: null, undefined, or a number
DeviceCountValues == {NullCount, UndefCount, 0, 1, 3}

DeviceCountsLists ==
    UNION {[1..n -> [deviceCount : DeviceCountValues, completedCount : DeviceCountValues]] :
           n \in 0..MaxCohorts}

DomainCalls ==
    {[fn |-> "getWorstStatus", a |-> a, b |-> b] : a \in Statuses, b \in Statuses}
    \cup {[fn |-> "calculateCompletionPercentage", completed |-> c, total |-> t] :
             c \in 0..MaxCount, t \in 0..MaxCount}
    \cup {[fn |-> "aggregateDeviceCounts", cohorts |-> cs] : cs \in DeviceCountsLists}

DomainInit ==
    /\ dcall \in DomainCalls
    /\ dret = Undefined
    /\ dpc = "call"
    /\ ImportIdle(<<>>)
    /\ WalkIdle
    /\ StatusIdle
    /\ ParseIdle
    /\ HookIdle
    /\ EditIdle

CallGetWorstStatus ==
    /\ dpc = "call" /\ dcall.fn = "getWorstStatus"
    /\ dret' = GetWorstStatus(dcall.a, dcall.b)
    /\ dpc' = "done"
    /\ UNCHANGED dcall
    /\ UNCHANGED <<importVars, walkVars, statusVars, parseVars, hookVars, editVars>>

CallCalculateCompletionPercentage ==
    /\ dpc = "call" /\ dcall.fn = "calculateCompletionPercentage"
    /\ dret' = CalculateCompletionPercentage(dcall.completed, dcall.total)
    /\ dpc' = "done"
    /\ UNCHANGED dcall
    /\ UNCHANGED <<importVars, walkVars, statusVars, parseVars, hookVars, editVars>>

CallAggregateDeviceCounts ==
    /\ dpc = "call" /\ dcall.fn = "aggregateDeviceCounts"
    /\ dret' = AggregateDeviceCounts(dcall.cohorts)
    /\ dpc' = "done"
    /\ UNCHANGED dcall
    /\ UNCHANGED <<importVars, walkVars, statusVars, parseVars, hookVars, editVars>>

DomainNext ==
    \/ CallGetWorstStatus
    \/ CallCalculateCompletionPercentage
    \/ CallAggregateDeviceCounts

----------------------------------------------------------------------------
(* The Dashboard's calculateMetrics over the same node list                *)

NodeTypes == {"organisation", "directorate", "department", "subdepartment", "cohort"}

\* the metrics before the loop
ZeroMetrics ==
    [statusCounts |-> [st \in Statuses |-> 0],
     typeCounts |-> [t \in NodeTypes |-> 0],
     totalDevices |-> 0, completedDevices |-> 0, totalCohorts |-> 0]

\* one iteration of `for (const node of nodes)` in calculateMetrics
CountNode(m, node) ==
    LET counted == [m EXCEPT !.statusCounts[node.status] = @ + 1,
                             !.typeCounts[node.type] = @ + 1]
    IN  IF node.type = "cohort"
        THEN [counted EXCEPT !.totalCohorts = @ + 1,
                             !.totalDevices = @ + Coalesce(node.deviceCount),
                             !.completedDevices = @ + Coalesce(node.completedCount)]
        ELSE counted

RECURSIVE CountNodes(_)
CountNodes(nodes) ==
    IF nodes = <<>> THEN ZeroMetrics
    ELSE CountNode(CountNodes(SubSeq(nodes, 1, Len(nodes) - 1)), nodes[Len(nodes)])

\* totalDevices > 0 ? Math.round((completedDevices / totalDevices) * 100) : 0
CompletionPercent(completedDevices, totalDevices) ==
    IF totalDevices > 0 /\ completedDevices > 0
    THEN MathRound(FloatMul(FloatDiv(completedDevices, totalDevices), 100))
    ELSE 0

\* calculateMetrics(nodes)
CalculateMetrics(nodes) ==
    LET m == CountNodes(nodes)
    IN  [statusCounts |-> m.statusCounts,
         typeCounts |-> m.typeCounts,
         totalDevices |-> m.totalDevices,
         completedDevices |-> m.completedDevices,
         completionPercent |-> CompletionPercent(m.completedDevices, m.totalDevices),
         totalCohorts |-> m.totalCohorts]

\* the Dashboard is rendered with the node list the tree was rendered with
DashboardMetrics ==
    /\ wpc \in {"done", "rendered"}
    /\ DOMAIN wmetrics = {}
    /\ wmetrics' = CalculateMetrics(wnodes)
    /\ UNCHANGED <<wnodes, wresult, wstack, wi, wpc, wshown, wbody, wmemo>>
    /\ UNCHANGED <<importVars, statusVars, parseVars, hookVars, domainVars, editVars>>

WalkNext ==
    \/ WalkCall
    \/ AggStep
    \/ AggReturn
    \/ WalkDone
    \/ Render
    \/ DashboardMetrics

Next == ImportNext

Spec == Init /\ [][Next]_vars

SpecWalk == WalkInit /\ [][WalkNext]_vars

\* the steps of calculateAggregatedCounts itself
WalkerStep ==
    \/ WalkCall
    \/ AggStep
    \/ AggReturn
    \/ WalkDone

\* calculateAggregatedCounts is a synchronous function: once called, it keeps on
\* executing while it has a next step
SpecWalkFair == WalkInit /\ [][WalkNext]_vars /\ WF_vars(WalkerStep)

SpecStatus == StatusInit /\ [][StatusNext]_vars

SpecParse == ParseInit /\ [][ParseNext]_vars

\* the two readers of a seed side by side: importSeedData is run once on the empty
\* store, and parseSeedData is called on the same seed once that run has returned
\* with no store call failed
ImportThenParse ==
    \/ ppc = "root" /\ ImportNext /\ run' = 1
    \/ pc = "done" /\ run = 1 /\ runFaults = {} /\ ParseNext

SpecImportParse == ParseInit /\ [][ImportThenParse]_vars

SpecHook == HookInit /\ [][HookNext]_vars

SpecHookAsync == HookInit /\ [][HookAsyncNext]_vars

SpecDomain == DomainInit /\ [][DomainNext]_vars


----------------------------------------------------------------------------
(* Properties of importSeedData                                            *)

Entries == 1..SeedSize

CallIdx == 1..Len(calls)

IsLookup(c) == c.op \in {"findNodeByName", "findChildByName"}

\* the store nodes that stand for seed entry i: the organisation of that name for the
\* root, and otherwise the nodes of the entry's name under a node standing for its parent
RECURSIVE LocSet(_, _)
LocSet(st, i) ==
    IF seed[i].parent = 0
    THEN {n \in st : n.type = "organisation" /\ n.parentId = NullId /\ n.name = seed[i].name}
    ELSE {n \in st : /\ n.name = seed[i].name
                     /\ \E q \in LocSet(st, seed[i].parent) : n.parentId = q.id}

Present(st, i) == LocSet(st, i) # {}

\* i is a proper seed ancestor of j
RECURSIVE IsAncestor(_, _)
IsAncestor(i, j) ==
    IF seed[j].parent = 0 THEN FALSE
    ELSE seed[j].parent = i \/ IsAncestor(i, seed[j].parent)

UniqueSiblingNames ==
    \A i, j \in Entries :
        (i # j /\ seed[i].parent = seed[j].parent) => seed[i].name # seed[j].name

CleanRun == runFaults = {}

CleanHistory == runFaults = {} /\ pastFaults = {}

RootCreateFailedInRun ==
    \E k \in CallIdx : calls[k].op = "create" /\ calls[k].entry = 1 /\ calls[k].outcome # "ok"

\* C6: when the organisation is not found and its create fails, the run is over at
\* once with success = false and one error; no call is issued for any child, nothing
\* is created.
C6_RootCreateFailureFatal ==
    RootCreateFailedInRun =>
        /\ pc = "done"
        /\ ~result.success
        /\ Len(result.errors) = 1
        /\ result.nodesCreated = 0
        /\ result.nodesSkipped = 0
        /\ \A k \in CallIdx : calls[k].entry = 1
        /\ calls[Len(calls)].op = "create"
        /\ store = startStore

C6_Witness ==
    /\ RootCreateFailedInRun
    /\ SeedSize >= 2
    /\ calls[Len(calls)].outcome = "errors"
    /\ pc = "done"

FailedChildCreates ==
    {k \in CallIdx : calls[k].op = "create" /\ calls[k].entry # 1 /\ calls[k].outcome = "errors"}

ThrowInRun == \E k \in CallIdx : calls[k].outcome = "throw"

\* the errors a run without exceptions has collected: one per rejected child create,
\* in the order of the calls
RECURSIVE ErrorsOf(_)
ErrorsOf(cs) ==
    IF cs = <<>> THEN <<>>
    ELSE LET c == cs[Len(cs)]
             front == ErrorsOf(SubSeq(cs, 1, Len(cs) - 1))
         IN  IF c.op = "create" /\ c.outcome = "errors" /\ c.entry # 1
             THEN Append(front, [kind |-> "Failed to create", name |-> seed[c.entry].name])
             ELSE front

\* C7: a create that returns errors for a non-root entry adds exactly one error string
\* for that entry, the later siblings of the entry (and their subtrees) are still
\* processed in order, and success stays true.
C7_ChildCreateErrorIsLocal ==
    (pc = "done" /\ FailedChildCreates # {} /\ ~ThrowInRun) =>
        /\ result.success
        /\ result.errors = ErrorsOf(calls)
        /\ \A k \in FailedChildCreates : \A s \in Entries :
              (s > calls[k].entry /\ seed[s].parent = seed[calls[k].entry].parent) =>
                  \E m \in CallIdx : m > k /\ IsLookup(calls[m]) /\ calls[m].entry = s
        /\ {calls[m].entry : m \in {x \in CallIdx : IsLookup(calls[x])}} =
              {i \in Entries : ~\E k \in FailedChildCreates : IsAncestor(calls[k].entry, i)}
        /\ \A m1, m2 \in CallIdx :
              (/\ IsLookup(calls[m1]) /\ IsLookup(calls[m2])
               /\ calls[m1].entry < calls[m2].entry
               /\ seed[calls[m1].entry].parent = seed[calls[m2].entry].parent) => m1 < m2

C7_Witness ==
    /\ pc = "done" /\ ~ThrowInRun
    /\ \E k \in FailedChildCreates : \E s \in Entries : \E t \in Entries :
          /\ s > calls[k].entry
          /\ seed[s].parent = seed[calls[k].entry].parent
          /\ seed[t].parent = s
          /\ \E m \in CallIdx : m > k /\ calls[m].op = "create" /\ calls[m].entry = t

HasLaterLookup(k, s) == \E m \in CallIdx : m > k /\ IsLookup(calls[m]) /\ calls[m].entry = s

MissingAtStart == {i \in Entries : ~Present(startStore, i)}

\* a run without failures that follows runs cut short by rejected creates, exceptions
\* or abandonment (and none in which a query came back without data)
RecoveryRun ==
    /\ pc = "done" /\ run >= 2 /\ CleanRun
    /\ pastFaults # {}
    /\ "queryNoData" \notin pastFaults

Recovered ==
    /\ result.success
    /\ result.errors = <<>>
    /\ result.nodesCreated = Cardinality(MissingAtStart)
    /\ result.nodesSkipped = SeedSize - Cardinality(MissingAtStart)
    /\ {calls[k].entry : k \in {x \in CallIdx : calls[x].op = "create"}} = MissingAtStart
    /\ \A i \in Entries : Cardinality(LocSet(store, i)) = 1
    /\ \A i, j \in Entries : i # j => LocSet(store, i) # LocSet(store, j)
    /\ Cardinality(store) = SeedSize

NoTwin(i) ==
    \A s \in Entries : (s # i /\ seed[s].parent = seed[i].parent) => seed[s].name # seed[i].name

\* C10: the existence check of a non-root entry looks only under the current parent:
\* an entry is skipped only for a node of its name under that very parent, and after a
\* run on the empty store two entries of one name under different parents (neither
\* repeating the name of a sibling) have both been created, each under its own parent.
C10_LookupScopedByParent ==
    /\ \A k \in CallIdx :
          (calls[k].op = "findChildByName" /\ calls[k].ret # NullId) =>
              \E n \in store : /\ n.id = calls[k].ret
                               /\ n.parentId = calls[k].parentId
                               /\ n.name = seed[calls[k].entry].name
    /\ (pc = "done" /\ run = 1 /\ CleanRun) =>
          \A i, j \in Entries :
              (/\ i # j /\ seed[i].parent # 0 /\ seed[j].parent # 0
               /\ seed[i].name = seed[j].name
               /\ NoTwin(i) /\ NoTwin(j)
               /\ LocSet(store, seed[i].parent) \cap LocSet(store, seed[j].parent) = {}) =>
                  /\ Present(store, i) /\ Present(store, j)
                  /\ LocSet(store, i) \cap LocSet(store, j) = {}
                  /\ \E k \in CallIdx : calls[k].op = "create" /\ calls[k].entry = i
                  /\ \E k \in CallIdx : calls[k].op = "create" /\ calls[k].entry = j

C10_Witness ==
    /\ pc = "done" /\ run = 1 /\ CleanRun
    /\ \E i, j \in Entries :
          /\ i # j /\ seed[i].parent # 0 /\ seed[j].parent # 0
          /\ seed[i].name = seed[j].name
          /\ NoTwin(i) /\ NoTwin(j)
          /\ seed[i].parent # seed[j].parent
          /\ \E a \in LocSet(store, i) : \E b \in LocSet(store, j) : a.parentId # b.parentId

\* before call k the run has created seed entry j or found it in the store
CreatedOrSkippedBefore(k, j) ==
    \E m \in CallIdx : m < k /\ calls[m].entry = j /\ calls[m].ret # NullId

\* C22 (as claimed): importSeedData issues its create calls in breadth-first order,
\* parents before children: when the create for an entry at seed depth d + 1 is issued,
\* every entry at depth d has been created or skipped, and the parent's id has been
\* obtained and is the parentId passed.  Stated for runs in which no store call fails.
C22_BreadthFirstCreates ==
    CleanRun =>
        \A k \in CallIdx :
            (calls[k].op = "create" /\ seed[calls[k].entry].parent # 0) =>
                LET e == calls[k].entry
                IN  /\ \A j \in Entries :
                          SeedDepth(seed, j) + 1 = SeedDepth(seed, e)
                              => CreatedOrSkippedBefore(k, j)
                    /\ \E m \in CallIdx :
                          /\ m < k
                          /\ calls[m].entry = seed[e].parent
                          /\ calls[m].ret # NullId
                          /\ calls[m].ret = calls[k].parentId

\* the seed entries below an entry whose create returned errors in this run
BelowFailedCreate ==
    LET failed == {calls[k].entry : k \in FailedChildCreates}
    IN  IF failed = {} THEN {}
        ELSE {j \in Entries : \E e \in failed : IsAncestor(e, j)}

CreatedEntries ==
    {calls[k].entry : k \in {x \in CallIdx : calls[x].op = "create" /\ calls[x].outcome = "ok"}}

SkippedEntries ==
    {calls[k].entry : k \in {x \in CallIdx : IsLookup(calls[x]) /\ calls[x].ret # NullId}}

ErrorEntries ==
    {calls[k].entry : k \in {x \in CallIdx : calls[x].outcome \in {"errors", "throw"}}}

\* C23: when the create for a non-root seed entry returns errors, the run issues no
\* lookup and no create for any seed descendant of that entry, and the descendants
\* are counted in none of nodesCreated, nodesSkipped and errors: the three count the
\* entries created, found and failed, none of which is such a descendant.
C23_FailedSubtreeUntouched ==
    LET below == BelowFailedCreate
    IN  /\ \A k \in CallIdx : calls[k].entry \notin below
        /\ result.nodesCreated = Cardinality(CreatedEntries)
        /\ result.nodesSkipped = Cardinality(SkippedEntries)
        /\ Len(result.errors) = Cardinality(ErrorEntries)
        /\ (CreatedEntries \cup SkippedEntries \cup ErrorEntries) \cap below = {}
        /\ result.nodesCreated + result.nodesSkipped + Len(result.errors)
              <= SeedSize - Cardinality(below)

\* a finished run in which a create failed for an entry that has seed children: the
\* three counters add up to less than the number of seed nodes
C23_Witness ==
    /\ pc = "done"
    /\ BelowFailedCreate # {}
    /\ \E k \in FailedChildCreates : \E s \in Entries :
          s > calls[k].entry /\ seed[s].parent = seed[calls[k].entry].parent
    /\ result.nodesCreated + result.nodesSkipped + Len(result.errors) < SeedSize

\* C24 (as claimed): whatever store calls fail, runs of a seed with unique sibling
\* names never leave two store nodes with the same parentId and the same name.
C24_NoDuplicateSiblings ==
    UniqueSiblingNames =>
        \A a, b \in store : (a.parentId = b.parentId /\ a.name = b.name) => a.id = b.id

----------------------------------------------------------------------------
(* Properties of calculateAggregatedCounts                                 *)

NodeIdx == 1..Len(wnodes)

NodeIds == {wnodes[i].id : i \in NodeIdx} \ {NullId}

ParentIdOf(id) == (CHOOSE n \in Range(wnodes) : n.id = id).parentId

\* the ids met when following parentId links upwards from pid, for at most fuel links
RECURSIVE Chain(_, _)
Chain(pid, fuel) ==
    IF pid = NullId \/ fuel = 0 \/ pid \notin NodeIds
    THEN {}
    ELSE {pid} \cup Chain(ParentIdOf(pid), fuel - 1)

AncestorIds(i) == Chain(wnodes[i].parentId, Len(wnodes))

HasCycle == \E i \in NodeIdx : wnodes[i].id # NullId /\ wnodes[i].id \in AncestorIds(i)

\* the parentId links form a tree and cohort nodes have no children
WellFormed ==
    /\ \A i \in NodeIdx : wnodes[i].id # NullId
    /\ \A i \in NodeIdx : wnodes[i].parentId = NullId \/ wnodes[i].parentId \in NodeIds
    /\ ~HasCycle
    /\ Cardinality({i \in NodeIdx : wnodes[i].parentId = NullId}) = 1
    /\ \A i, j \in NodeIdx : wnodes[j].parentId = wnodes[i].id => wnodes[i].type # "cohort"

CohortDescendants(id) ==
    {j \in NodeIdx : wnodes[j].type = "cohort" /\ id \in AncestorIds(j)}

RECURSIVE SumDevices(_)
SumDevices(S) ==
    IF S = {} THEN 0
    ELSE LET j == CHOOSE x \in S : TRUE
         IN  (IF wnodes[j].deviceCount = NullCount THEN 0 ELSE wnodes[j].deviceCount)
               + SumDevices(S \ {j})

RECURSIVE SumCompleted(_)
SumCompleted(S) ==
    IF S = {} THEN 0
    ELSE LET j == CHOOSE x \in S : TRUE
         IN  (IF wnodes[j].completedCount = NullCount THEN 0 ELSE wnodes[j].completedCount)
               + SumCompleted(S \ {j})

\* C2: on a well-formed node set the map holds, for every non-cohort node, the sums of
\* deviceCount ?? 0 and completedCount ?? 0 over the cohorts below it at any depth
\* ((0, 0) when there is none).
C2_SumsOverCohortDescendants ==
    (wpc = "done" /\ WellFormed) =>
        \A i \in NodeIdx :
            wnodes[i].type # "cohort" =>
                /\ wnodes[i].id \in DOMAIN wresult
                /\ wresult[wnodes[i].id].deviceCount = SumDevices(CohortDescendants(wnodes[i].id))
                /\ wresult[wnodes[i].id].completedCount =
                      SumCompleted(CohortDescendants(wnodes[i].id))

C2_Witness ==
    /\ wpc = "done" /\ WellFormed
    /\ \E i, j, c \in NodeIdx :
          /\ wnodes[i].parentId = NullId
          /\ wnodes[j].parentId = wnodes[i].id /\ wnodes[j].type # "cohort"
          /\ wnodes[c].parentId = wnodes[j].id /\ wnodes[c].type = "cohort"
          /\ wresult[wnodes[i].id].deviceCount > 0

\* C4 (as claimed): when the parentId links contain a cycle the walker ends with a
\* CycleDetected error.
C4_CycleDetected == (HasCycle /\ wpc # "run") => wpc = "CycleDetected"

\* C12 (as claimed): in the map the walker returns, the entry of a cohort node is the
\* cohort's own (deviceCount ?? 0, completedCount ?? 0).
C12_CohortEntryOwnCounts ==
    (wpc = "done" /\ WellFormed) =>
        \A i \in NodeIdx :
            wnodes[i].type = "cohort" =>
                /\ wnodes[i].id \in DOMAIN wresult
                /\ wresult[wnodes[i].id] = CohortCounts(wnodes[i])

\* the status the roll-up rule assigns to a node: a cohort's stored status, and for
\* any other node calculateStatus over the effective statuses of its direct children
\* (its own stored status standing in when it has none)
RECURSIVE EffectiveStatus(_)
EffectiveStatus(node) ==
    IF node.type = "cohort" THEN node.status
    ELSE LET children == ChildrenMap(wnodes, node.id)
         IN  CalculateStatus([k \in 1..Len(children) |-> EffectiveStatus(children[k])],
                             node.status)

\* C11 (as claimed): the status the tree shows for a non-cohort node is the roll-up of
\* its subtree: calculateStatus applied to the effective statuses of its direct
\* children, computed bottom-up.
C11_RollupShown ==
    (wpc = "rendered" /\ WellFormed) =>
        \A i \in NodeIdx :
            wnodes[i].type # "cohort" =>
                wshown[wnodes[i].id].status = EffectiveStatus(wnodes[i])

\* the node without parent
RootNode == CHOOSE n \in Range(wnodes) : n.parentId = NullId

\* C28 (as claimed): on a well-formed node set (one root, no orphans, cohorts are
\* leaves) the Dashboard's totalDevices and completedDevices equal the deviceCount and
\* completedCount of the walker's entry for the root node.
C28_MetricsEqualRootEntry ==
    (DOMAIN wmetrics # {} /\ WellFormed) =>
        /\ wmetrics.totalDevices = wresult[RootNode.id].deviceCount
        /\ wmetrics.completedDevices = wresult[RootNode.id].completedCount

Returned == wpc \in {"done", "rendered"}

\* on an acyclic node set the summation body runs at most once for a node id, the call
\* stack is never exhausted, and the returned map has an entry for every node with an id
MemoizedAndTotal ==
    ~HasCycle =>
        /\ \A id \in DOMAIN wbody : wbody[id] <= 1
        /\ wpc # "RangeError"
        /\ Returned => /\ DOMAIN wresult = NodeIds
                       /\ DOMAIN wbody = NodeIds

\* C21: on a node set whose parentId links are acyclic, calculateAggregatedCounts
\* terminates, runs the summation body of aggregate at most once per node id (later
\* requests being answered from the memo map), and returns a map with an entry for
\* every node that has an id.
C21_TerminatesMemoized ==
    /\ []MemoizedAndTotal
    /\ <>(HasCycle \/ Returned)

\* a parent listed after its child: the child's entry is computed first and the
\* parent's summation is answered from the memo map; and a root listed first, whose
\* descendants are computed in the recursion and then requested again by the loop
C21_Witness ==
    /\ ~HasCycle
    /\ Returned
    /\ Len(wnodes) = 3
    /\ \A i \in NodeIdx : wnodes[i].id # NullId /\ wbody[wnodes[i].id] = 1
    /\ wnodes[1].type # "cohort" /\ wnodes[2].type # "cohort"
    /\ wnodes[1].parentId = 2 /\ wnodes[2].parentId = NullId /\ wnodes[3].parentId = 2
    /\ DOMAIN wmemo = {1, 3}
    /\ wmemo[1] = 1

----------------------------------------------------------------------------
(* Properties of calculateStatus                                           *)

\* C3: calculateStatus returns the fallback (red when none is given) for the empty
\* sequence, and otherwise red if a red occurs, else amber if an amber occurs, else
\* blue if nothing but blue occurs, else green.
C3_StatusRules ==
    spc = "done" =>
        sresult =
            IF childStatuses = <<>>
            THEN (IF fallback \in Statuses THEN fallback ELSE "red")
            ELSE IF "red" \in Range(childStatuses) THEN "red"
            ELSE IF "amber" \in Range(childStatuses) THEN "amber"
            ELSE IF Range(childStatuses) = {"blue"} THEN "blue"
            ELSE "green"

C3_Witness ==
    /\ spc = "done"
    /\ Len(childStatuses) = 3
    /\ Range(childStatuses) = {"green", "blue"}
    /\ sresult = "green"

\* a non-empty sequence folded with getWorstStatus, from the left
RECURSIVE FoldWorst(_)
FoldWorst(cs) ==
    IF Len(cs) = 1 THEN cs[1]
    ELSE GetWorstStatus(FoldWorst(SubSeq(cs, 1, Len(cs) - 1)), cs[Len(cs)])

\* C13 (as claimed): some non-empty status sequence makes calculateStatus return
\* something else than the worst element of the sequence under red > amber > green >
\* blue, that is, than the sequence folded with getWorstStatus.
C13_NotOrdinalFold ==
    \E n \in 1..MaxStatuses : \E cs \in [1..n -> Statuses] :
        CalculateStatus(cs, fallback) # FoldWorst(cs)

\* C13 (amended): on every non-empty sequence calculateStatus returns the worst
\* element, the sequence folded with getWorstStatus; only the empty sequence, which
\* yields the fallback, sets it apart from a fold.
C13_IsOrdinalFold ==
    (spc = "done" /\ childStatuses # <<>>) => sresult = FoldWorst(childStatuses)

C13_Witness ==
    /\ spc = "done"
    /\ Len(childStatuses) >= 2
    /\ {"green", "blue"} \subseteq Range(childStatuses)
    /\ fallback = "blue"
    /\ sresult = "green"
    /\ FoldWorst(childStatuses) = "green"

----------------------------------------------------------------------------
(* Properties of parseSeedData                                             *)

OutIdx == 1..Len(pnodes)

\* C5: parseSeedData returns one record per seed entry, with pairwise distinct ids;
\* the only record without a parent is the first one, the organisation; every other
\* record names as parentId the id of the record made from its seed parent, and that
\* record stands earlier in the output.
C5_FlatteningKeepsTheTree ==
    ppc = "done" =>
        /\ Len(pnodes) = SeedSize
        /\ Len(psrc) = SeedSize
        /\ {psrc[k] : k \in OutIdx} = Entries
        /\ \A k, m \in OutIdx : k # m => pnodes[k].id # pnodes[m].id
        /\ {k \in OutIdx : pnodes[k].parentId = NullId} = {1}
        /\ psrc[1] = 1
        /\ pnodes[1].type = "organisation"
        /\ \A k \in OutIdx \ {1} :
              \E m \in 1..(k - 1) :
                  /\ psrc[m] = seed[psrc[k]].parent
                  /\ pnodes[k].parentId = pnodes[m].id

C5_Witness ==
    /\ ppc = "done"
    /\ SeedSize >= 4
    /\ \E k \in OutIdx : SeedDepth(seed, psrc[k]) >= 2
    /\ \E k \in OutIdx : pnodes[k].parentId # NullId /\ pnodes[k].parentId > pnodes[k].id

\* C14: parseSeedData emits the records level by level: along the output the depth
\* of the seed entries never decreases, and the children of one parent come in the
\* order the seed lists them.
C14_BreadthFirstOrder ==
    ppc = "done" =>
        \A k, m \in OutIdx :
            k < m =>
                /\ SeedDepth(seed, psrc[k]) <= SeedDepth(seed, psrc[m])
                /\ seed[psrc[k]].parent = seed[psrc[m]].parent => psrc[k] < psrc[m]

C14_Witness ==
    /\ ppc = "done"
    /\ \E k, m \in OutIdx :
          /\ k < m
          /\ psrc[k] > psrc[m]
          /\ SeedDepth(seed, psrc[k]) = 1
          /\ SeedDepth(seed, psrc[m]) = 2

\* C15: every emitted record carries the name of its seed entry, and the entry's
\* status, contact, additionalContacts and headcount where the entry supplies them;
\* where it does not, the status is red, additionalContacts is the empty list and the
\* other two are null; createdAt and updatedAt of all records of one call hold the
\* one timestamp taken on entry.
C15_FieldsAndDefaults ==
    ppc = "done" =>
        \A k \in OutIdx :
            LET e == seed[psrc[k]]
                node == pnodes[k]
            IN  /\ node.name = e.name
                /\ node.status = (IF e.status \in Statuses THEN e.status ELSE "red")
                /\ "contact" \in e.given => node.contact = e.contact
                /\ "contact" \notin e.given => node.contact = Null
                /\ "additionalContacts" \in e.given =>
                      node.additionalContacts = e.additionalContacts
                /\ "additionalContacts" \notin e.given => node.additionalContacts = <<>>
                /\ "headcount" \in e.given => node.headcount = e.headcount
                /\ "headcount" \notin e.given => node.headcount = NullCount
                /\ node.createdAt = pnow
                /\ node.updatedAt = pnow
                /\ \A m \in OutIdx : /\ pnodes[m].createdAt = node.createdAt
                                     /\ pnodes[m].updatedAt = node.createdAt

C15_Witness ==
    /\ ppc = "done"
    /\ SeedSize >= 3
    /\ \E k, m \in OutIdx :
          /\ seed[psrc[k]].given = {"contact", "additionalContacts", "headcount"}
          /\ pnodes[k].additionalContacts # <<>>
          /\ pnodes[k].status = "amber"
          /\ seed[psrc[m]].given = {}
          /\ seed[psrc[m]].status = Null
          /\ pnodes[m].status = "red"
    /\ \E k \in OutIdx : "headcount" \in seed[psrc[k]].given /\ pnodes[k].headcount = 0

\* the type a seed entry declares, the organisation's being fixed
DeclaredType(i) == IF i = 1 THEN "organisation" ELSE seed[i].type

\* every typed entry under a typed parent has a type allowed under the parent's
SeedRespectsMatrix ==
    \A i \in 2..SeedSize :
        (DeclaredType(i) # Null /\ DeclaredType(seed[i].parent) # Null)
            => DeclaredType(i) \in AllowedChildTypes(DeclaredType(seed[i].parent))

\* C26 (as claimed): when the typed entries of the seed respect the child-type matrix,
\* so does the output of parseSeedData, entries without a type included: the root is
\* the only node of type organisation and the type of every other node is an allowed
\* child type of its parent's type.
C26_ChildTypeMatrix ==
    (ppc = "done" /\ SeedRespectsMatrix) =>
        \A k \in OutIdx :
            IF pnodes[k].parentId = NullId
            THEN pnodes[k].type = "organisation"
            ELSE /\ pnodes[k].type # "organisation"
                 /\ \E j \in OutIdx :
                       /\ pnodes[j].id = pnodes[k].parentId
                       /\ pnodes[k].type \in AllowedChildTypes(pnodes[j].type)

----------------------------------------------------------------------------
(* Properties of useNodes                                                  *)

\* the node the last mutation would have left behind, had it gone through
Attempted ==
    IF hlast.op = "createNode"
    THEN HookNode(NullId, hlast.input.parentId, hlast.input.deviceCount,
                  hlast.input.completedCount)
    ELSE Merge(CHOOSE n \in Range(hprev) : n.id = hlast.id, hlast.input)

\* C16 (as claimed): after any sequence of creations and updates made through the
\* hook every node with both counts has completedCount <= deviceCount, and a create or
\* update that would break this is rejected (the call fails) and leaves the list as
\* it was.
C16_CountsValidated ==
    /\ \A k \in 1..Len(hnodes) : NodeSchemaRefine(hnodes[k])
    /\ (hlast.op \in {"createNode", "updateNode"} /\ ~NodeSchemaRefine(Attempted)) =>
          (hlast.outcome # "ok" /\ hnodes = hprev)

NoOrphans(nodes) ==
    \A k \in 1..Len(nodes) : nodes[k].parentId = NullId \/ nodes[k].parentId \in HookIds(nodes)

\* C17 (as claimed): when deleteNode succeeds on a list without orphans, the list it
\* leaves has no orphans either.
C17_DeleteLeavesNoOrphans ==
    (hlast.op = "deleteNode" /\ hlast.outcome = "ok" /\ NoOrphans(hprev)) => NoOrphans(hnodes)

\* C29 (as claimed): however the completions of fetchNodes/refetch and createNode
\* interleave, the nodes list never holds two entries with the same id and never
\* lacks a node whose createNode call has resolved.
C29_NoDuplicateNoLoss ==
    /\ \A i, j \in 1..Len(hnodes) : i # j => hnodes[i].id # hnodes[j].id
    /\ hresolved \subseteq HookIds(hnodes)

----------------------------------------------------------------------------
(* Properties of the domain functions                                      *)

Called(fn) == dpc = "done" /\ dcall.fn = fn

\* C18 (as claimed): calculateCompletionPercentage returns 0 when total is 0 and
\* otherwise 100 * completed / total rounded to the nearest integer, halves up, and
\* capped at 100; so the result lies in 0..100 and is 100 when completed = total > 0.
C18_RoundsHalfUp ==
    Called("calculateCompletionPercentage") =>
        LET c == dcall.completed
            t == dcall.total
        IN  /\ dret = (IF t = 0 THEN 0 ELSE Min(100, (200 * c + t) \div (2 * t)))
            /\ dret \in 0..100
            /\ (c = t /\ t > 0) => dret = 100

\* the sum of field f over the entries of cohorts whose indices are in S, absent
\* values left out
RECURSIVE SumField(_, _, _)
SumField(cohorts, f, S) ==
    IF S = {} THEN 0
    ELSE LET j == CHOOSE x \in S : TRUE
         IN  (IF cohorts[j][f] \in {NullCount, UndefCount} THEN 0 ELSE cohorts[j][f])
               + SumField(cohorts, f, S \ {j})

\* C19: aggregateDeviceCounts returns the sum of the deviceCount values and the sum of
\* the completedCount values, each taken on its own, null and undefined counting as
\* 0; for the empty list both are 0.
C19_IndependentSums ==
    Called("aggregateDeviceCounts") =>
        LET cohorts == dcall.cohorts
        IN  /\ dret.totalDevices = SumField(cohorts, "deviceCount", DOMAIN cohorts)
            /\ dret.totalCompleted = SumField(cohorts, "completedCount", DOMAIN cohorts)
            /\ cohorts = <<>> => dret = [totalDevices |-> 0, totalCompleted |-> 0]

C19_Witness ==
    /\ Called("aggregateDeviceCounts")
    /\ Len(dcall.cohorts) = 2
    /\ dcall.cohorts[1].deviceCount = NullCount
    /\ dcall.cohorts[2].completedCount = UndefCount
    /\ dcall.cohorts[1].completedCount = 3
    /\ dcall.cohorts[2].deviceCount = 1
    /\ dret = [totalDevices |-> 1, totalCompleted |-> 3]

\* the statuses from worst to best
WorstFirst == <<"red", "amber", "green", "blue">>

Rank(s) == CHOOSE k \in 1..4 : WorstFirst[k] = s

\* C20: getWorstStatus(a, b) is the one of a and b that stands earlier in the order
\* red > amber > green > blue, and swapping the arguments gives the same result.
C20_WorstOfTwo ==
    Called("getWorstStatus") =>
        /\ dret \in {dcall.a, dcall.b}
        /\ Rank(dret) <= Rank(dcall.a)
        /\ Rank(dret) <= Rank(dcall.b)
        /\ dret = GetWorstStatus(dcall.b, dcall.a)

C20_Witness ==
    /\ Called("getWorstStatus")
    /\ dcall.a = "blue"
    /\ dcall.b = "amber"
    /\ dret = "amber"

\* NodeSchema accepts the counts of a cohort: each is absent or a non-negative
\* integer, and the refinement holds
SchemaAccepts(data) ==
    /\ data.deviceCount \in {NullCount, UndefCount} \/ data.deviceCount >= 0
    /\ data.completedCount \in {NullCount, UndefCount} \/ data.completedCount >= 0
    /\ NodeSchemaRefine(data)

\* C27 (as claimed): when every cohort is accepted by NodeSchema, the totals of
\* aggregateDeviceCounts satisfy totalCompleted <= totalDevices.
C27_CompletedWithinDevices ==
    (/\ Called("aggregateDeviceCounts")
     /\ \A k \in DOMAIN dcall.cohorts : SchemaAccepts(dcall.cohorts[k]))
        => dret.totalCompleted <= dret.totalDevices

----------------------------------------------------------------------------
(* importSeedData and parseSeedData on the same seed                       *)

\* the names from the root down to node n of the store
RECURSIVE StorePath(_)
StorePath(n) ==
    IF n.parentId = NullId THEN <<n.name>>
    ELSE Append(StorePath(CHOOSE q \in store : q.id = n.parentId), n.name)

\* the names from the root down to the k-th node parseSeedData returned
RECURSIVE ParsedPath(_)
ParsedPath(k) ==
    IF pnodes[k].parentId = NullId THEN <<pnodes[k].name>>
    ELSE Append(ParsedPath(CHOOSE j \in OutIdx : pnodes[j].id = pnodes[k].parentId),
                pnodes[k].name)

\* what the two outputs are compared by
Described(path, n) ==
    [path |-> path, type |-> n.type, status |-> n.status, contact |-> n.contact,
     additionalContacts |-> n.additionalContacts, headcount |-> n.headcount]

EveryTypeExplicit == \A i \in Entries : i > 1 => seed[i].type # Null

\* C25: for a seed whose non-root entries all carry a type and whose sibling names
\* are unique, the store left by importSeedData on an empty store, every operation
\* succeeding, holds exactly the nodes parseSeedData returns for that seed, compared
\* by path of names, type, status, contact, additionalContacts and headcount.
C25_ImportMatchesParse ==
    (ppc = "done" /\ EveryTypeExplicit /\ UniqueSiblingNames) =>
        /\ {Described(StorePath(n), n) : n \in store}
              = {Described(ParsedPath(k), pnodes[k]) : k \in OutIdx}
        /\ Cardinality(store) = Len(pnodes)
        /\ Len(pnodes) = SeedSize

C25_Witness ==
    /\ ppc = "done" /\ EveryTypeExplicit /\ UniqueSiblingNames
    /\ SeedSize = 4
    /\ \E i \in Entries : SeedDepth(seed, i) = 2
    /\ \E n \in store : n.headcount = 0 /\ n.contact = ""
    /\ \E n \in store : n.headcount = NullCount /\ n.status = "red"
    /\ Cardinality(store) = 4

-----------------------------------------------------------------------------
(* EditableField (NodeEditor.tsx): a text field's edit state machine, with  *)
(* the closures of its handlers.  Every render creates handleSave and       *)
(* handleBlur afresh over that render's `state` and `value`; a blur timer   *)
(* keeps the closure of the render in which the input lost focus.           *)

MaxEvents == 4

Drafts == {"", "a", "b"}

FieldValues == {Null, "a"}

SaveOutcomes == {"ok", "rejected"}

Viewing == [mode |-> "viewing"]

\* value?.toString() ?? ''
ValueText(value) == IF value = Null THEN "" ELSE value

\* draftValue === '' ? null : draftValue
NewValue(draftValue) == IF draftValue = "" THEN Null ELSE draftValue

InEditSession == estate.mode \in {"editing", "saving", "error"}

\* The input, the save button and the cancel button are rendered and enabled.
Editable == estate.mode \in {"editing", "error"}

\* The first number no pending onSave call carries.
NextCall ==
    CHOOSE n \in 1..(Cardinality(epending) + 1) :
        /\ \A save \in epending : save.call # n
        /\ \A m \in 1..(n - 1) : \E save \in epending : save.call = m

\* handleSave as created by a render that saw state s and value v.
HandleSave(s, v) ==
    IF s.mode \notin {"editing", "error"}
    THEN UNCHANGED <<estate, epending, esaves, eoverlap>>
    ELSE IF s.draftValue = ValueText(v)
    THEN /\ estate' = Viewing
         /\ UNCHANGED <<epending, esaves, eoverlap>>
    ELSE /\ estate' = [mode |-> "saving", draftValue |-> s.draftValue]
         /\ epending' = epending \cup
                {[call |-> NextCall, draftValue |-> s.draftValue]}
         /\ esaves' = IF InEditSession THEN esaves + 1 ELSE esaves
         /\ eoverlap' = (eoverlap \/ epending # {})

EnterEditMode ==
    /\ estate.mode = "viewing" /\ eevents < MaxEvents
    /\ estate' = [mode |-> "editing", draftValue |-> ValueText(evalue)]
    /\ esaves' = 0
    /\ eevents' = eevents + 1
    /\ UNCHANGED <<evalue, etimers, epending, eoverlap>>

HandleChange ==
    /\ Editable /\ eevents < MaxEvents
    /\ \E text \in Drafts \ {estate.draftValue} :
          estate' = [mode |-> "editing", draftValue |-> text]
    /\ eevents' = eevents + 1
    /\ UNCHANGED <<evalue, etimers, epending, esaves, eoverlap>>

\* handleKeyDown with key 'Enter'
PressEnter ==
    /\ Editable /\ eevents < MaxEvents
    /\ HandleSave(estate, evalue)
    /\ eevents' = eevents + 1
    /\ UNCHANGED <<evalue, etimers>>

\* The save button's onClick
ClickSave ==
    /\ Editable /\ eevents < MaxEvents
    /\ HandleSave(estate, evalue)
    /\ eevents' = eevents + 1
    /\ UNCHANGED <<evalue, etimers>>

\* handleKeyDown with key 'Escape', and the cancel button's onClick
HandleCancel ==
    /\ Editable /\ eevents < MaxEvents
    /\ estate' = Viewing
    /\ eevents' = eevents + 1
    /\ UNCHANGED <<evalue, etimers, epending, esaves, eoverlap>>

\* handleBlur: starts the 150 ms timer over this render's closure
HandleBlur ==
    /\ Editable /\ eevents < MaxEvents
    /\ etimers' = etimers \cup {[state |-> estate, value |-> evalue]}
    /\ eevents' = eevents + 1
    /\ UNCHANGED <<estate, evalue, epending, esaves, eoverlap>>

\* The timer's callback: if (state.mode === 'editing') handleSave()
BlurTimerFires ==
    \E timer \in etimers :
        /\ etimers' = etimers \ {timer}
        /\ IF timer.state.mode = "editing"
           THEN HandleSave(timer.state, timer.value)
           ELSE UNCHANGED <<estate, epending, esaves, eoverlap>>
        /\ UNCHANGED <<evalue, eevents>>

\* The awaited onSave settles and handleSave resumes after its await.
OnSaveSettles ==
    \E save \in epending : \E outcome \in SaveOutcomes :
        /\ epending' = epending \ {save}
        /\ IF outcome = "ok"
           THEN /\ estate' = Viewing
                /\ evalue' = NewValue(save.draftValue)
           ELSE /\ estate' = [mode |-> "error", draftValue |-> save.draftValue]
                /\ UNCHANGED evalue
        /\ UNCHANGED <<etimers, esaves, eoverlap, eevents>>

EditInit ==
    /\ estate = Viewing
    /\ evalue \in FieldValues
    /\ etimers = {}
    /\ epending = {}
    /\ esaves = 0
    /\ eoverlap = FALSE
    /\ eevents = 0
    /\ ImportIdle(<<>>)
    /\ WalkIdle
    /\ StatusIdle
    /\ ParseIdle
    /\ HookIdle
    /\ DomainIdle

EditNext ==
    /\ \/ EnterEditMode
       \/ HandleChange
       \/ PressEnter
       \/ ClickSave
       \/ HandleCancel
       \/ HandleBlur
       \/ BlurTimerFires
       \/ OnSaveSettles
    /\ UNCHANGED <<importVars, walkVars, statusVars, parseVars, hookVars, domainVars>>

SpecEdit == EditInit /\ [][EditNext]_vars

\* C30: within one edit session onSave is invoked at most once, and never
\* while a previous onSave is still pending, whatever the order of Enter, the
\* save button's click and the delayed blur handler.
C30_SingleSave == esaves <= 1 /\ ~eoverlap

====
